---- MODULE Spec2Model ----
(***************************************************************************)
(* Model of the persistence core of blacar: aggregate roots that collect   *)
(* domain events, the two DomainEventBroker implementations, the           *)
(* transactions.atomic wrapper over the database connection, and the       *)
(* DjangoRepository / InMemoryRepository operations.                       *)
(***************************************************************************)
EXTENDS Integers, Sequences, FiniteSets, TLC

\* ------------------------------------------------------------------------
\* Bounds of the model
\* ------------------------------------------------------------------------
MaxEvents == 2
MaxStores == 2
MaxDepth == 2
MaxSavepoints == 2
MaxRegistrations == 3
MaxDispatches == 2
MaxPulls == 3
MaxValue == 2

Aggs == {"a1", "a2"}
Emails == {"a@x.com", "b@x.com"}
EventTypes == {"EventA", "EventB"}
Listeners == {"l1", "l2"}
NoRow == "NoRow"
None == "None"

VARIABLES
    \* aggregate roots (python objects)
    domain_events,      \* AbstractRoot._domain_events of each aggregate object
    email,              \* the email attribute of each aggregate object
    event_count,        \* number of DomainEvent values constructed so far
    \* the database connection used by DjangoRepository
    connection,         \* in_atomic_block, savepoint_ids, savepoint_state, run_on_commit,
                        \* rows (the table as the connection sees it) and undo (the
                        \* table as it was when each open atomic block was entered)
    repository,         \* the Repository implementation the process resolved
    \* the in-memory repository
    instances,          \* InMemoryRepository._instances
    \* the process-wide broker and the listener functions
    broker,
    raising,            \* the listeners whose call raises an exception
    \* history of the calls made, kept to state the properties
    store_log,          \* one entry per store() call
    dispatch_log,       \* one entry per call of broker.dispatch
    call_result,        \* what the last repository call returned or raised
    \* python list objects, for pull_events on its own
    heap,               \* the list objects alive; an aggregate's list is heap[a]
    pull_log,           \* one entry per pull_events() call
    since_pull,         \* per aggregate: no append since its last pull
    \* concurrent requests, each with a connection of its own
    sessions,           \* per request: in_atomic_block, loaded instances, writes
    table,              \* the committed rows: id -> <<value>>, or <<>> for no row
    row_lock,           \* per row: the request whose transaction holds its lock
    \* lookups: get, get_by_id and find
    stored,             \* the aggregates held by the repository, as it iterates them
    criteria,           \* the Filters instance the caller built
    pagination,         \* the pagination object the caller built
    query_result,       \* the last lookup: its arguments and what it returned or raised
    \* DomainEventBroker.resolve and its callers
    settings,           \* settings.DOMAIN_EVENTS_BROKER
    broker_objects,     \* the broker objects created so far
    resolve_cache,      \* the cache of DomainEventBroker.resolve: call arguments -> broker object
    resolve_log,        \* one entry per call of DomainEventBroker.resolve
    repository_broker,  \* Repository.domain_events_broker, once the class body has run
    \* Filters.from_criteria on a declared Criteria type
    criteria_type,      \* the Criteria subclass handed to Filters.from_criteria
    filters_class,      \* what from_criteria returned or raised
    bound_values        \* what _create_criteria built from the cleaned values of a request

txVars == <<domain_events, email, event_count, connection, repository, instances,
            store_log, dispatch_log, call_result>>
brokerVars == <<broker, raising>>
pullVars == <<heap, pull_log, since_pull>>
lockVars == <<sessions, table, row_lock>>
queryVars == <<stored, criteria, pagination, query_result>>
resolveVars == <<settings, broker_objects, resolve_cache, resolve_log, repository_broker>>
compileVars == <<criteria_type, filters_class, bound_values>>
vars == <<txVars, brokerVars, pullVars, lockVars, queryVars, resolveVars, compileVars>>
\* what the actions on the repository and the broker leave alone
besideStore == <<pullVars, lockVars, queryVars, resolveVars, compileVars>>

\* ------------------------------------------------------------------------
\* Sequence helpers
\* ------------------------------------------------------------------------
Range(s) == {s[i] : i \in 1..Len(s)}

RECURSIVE SeqFilter(_, _)
SeqFilter(s, keep) ==
    IF s = <<>> THEN <<>>
    ELSE IF Head(s) \in keep THEN <<Head(s)>> \o SeqFilter(Tail(s), keep)
    ELSE SeqFilter(Tail(s), keep)

\* ------------------------------------------------------------------------
\* events.py: the brokers
\* ------------------------------------------------------------------------
\* A DomainEvent value: its id and its runtime type.
DomainEvent(n, t) == [id |-> n, type |-> t]

\* DjangoSignalDomainEventBroker.__init__ / InMemoryDomainEventBroker.__init__
NewDjangoSignalBroker ==
    [kind |-> "DjangoSignal", signals |-> [t \in {} |-> <<>>],
     listeners |-> [t \in {} |-> <<>>], dispatched_events |-> <<>>,
     call_listeners |-> FALSE, calls |-> <<>>, logged |-> <<>>, warned |-> <<>>]

NewInMemoryBroker(call_listeners) ==
    [kind |-> "InMemory", signals |-> [t \in {} |-> <<>>],
     listeners |-> [t \in {} |-> <<>>], dispatched_events |-> <<>>,
     call_listeners |-> call_listeners, calls |-> <<>>, logged |-> <<>>, warned |-> <<>>]

\* Signal.connect as register_listener uses it: a receiver already connected
\* for the sender is not connected again.
SignalConnect(receivers, listener) ==
    IF listener \in Range(receivers) THEN receivers ELSE Append(receivers, listener)

\* DjangoSignalDomainEventBroker.register_listener
DjangoRegisterListener(b, event_class, listener) ==
    LET sig == IF event_class \in DOMAIN b.signals THEN b.signals[event_class] ELSE <<>>
    IN [b EXCEPT !.signals =
            [t \in (DOMAIN b.signals) \cup {event_class} |->
                IF t = event_class THEN SignalConnect(sig, listener) ELSE b.signals[t]]]

\* InMemoryDomainEventBroker.register_listener
InMemoryRegisterListener(b, event_class, listener) ==
    LET cur == IF event_class \in DOMAIN b.listeners THEN b.listeners[event_class] ELSE <<>>
    IN [b EXCEPT !.listeners =
            [t \in (DOMAIN b.listeners) \cup {event_class} |->
                IF t = event_class THEN Append(cur, listener) ELSE b.listeners[t]]]

register_listener(b, event_class, listener) ==
    IF b.kind = "DjangoSignal" THEN DjangoRegisterListener(b, event_class, listener)
    ELSE InMemoryRegisterListener(b, event_class, listener)

\* Signal.send: the receivers are called in connection order and an exception
\* raised by one of them propagates, so the receivers after it are not called.
RECURSIVE SignalSend(_, _)
SignalSend(receivers, bad) ==
    IF receivers = <<>> THEN [called |-> <<>>, raised |-> FALSE]
    ELSE IF Head(receivers) \in bad THEN [called |-> <<Head(receivers)>>, raised |-> TRUE]
    ELSE LET rest == SignalSend(Tail(receivers), bad)
         IN [called |-> <<Head(receivers)>> \o rest.called, raised |-> rest.raised]

CallsOf(called, event) == [i \in 1..Len(called) |-> [listener |-> called[i], event |-> event]]

\* The body of the for loop of DjangoSignalDomainEventBroker.dispatch for one event.
DjangoDispatchOne(b, event, bad) ==
    IF event.type \notin DOMAIN b.signals
    THEN [b EXCEPT !.warned = Append(@, event)]
    ELSE LET sent == SignalSend(b.signals[event.type], bad)
         IN [b EXCEPT !.calls = @ \o CallsOf(sent.called, event),
                      !.logged = IF sent.raised THEN Append(@, event) ELSE @]

\* The listeners loop of InMemoryDomainEventBroker.dispatch for one event:
\* each call is in its own try block.
InMemoryCallListeners(b, event, bad) ==
    LET ls == IF event.type \in DOMAIN b.listeners THEN b.listeners[event.type] ELSE <<>>
        failed == SeqFilter(ls, bad)
    IN [b EXCEPT !.calls = @ \o CallsOf(ls, event),
                 !.logged = @ \o [i \in 1..Len(failed) |-> event]]

InMemoryDispatchOne(b, event, bad) ==
    LET b1 == [b EXCEPT !.dispatched_events = Append(@, event)]
    IN IF b.call_listeners THEN InMemoryCallListeners(b1, event, bad) ELSE b1

\* DjangoSignalDomainEventBroker.dispatch
RECURSIVE DjangoDispatch(_, _, _)
DjangoDispatch(b, events, bad) ==
    IF events = <<>> THEN b
    ELSE DjangoDispatch(DjangoDispatchOne(b, Head(events), bad), Tail(events), bad)

\* InMemoryDomainEventBroker.dispatch
RECURSIVE InMemoryDispatch(_, _, _)
InMemoryDispatch(b, events, bad) ==
    IF events = <<>> THEN b
    ELSE InMemoryDispatch(InMemoryDispatchOne(b, Head(events), bad), Tail(events), bad)

dispatch(b, events, bad) ==
    IF b.kind = "DjangoSignal" THEN DjangoDispatch(b, events, bad)
    ELSE InMemoryDispatch(b, events, bad)

\* ------------------------------------------------------------------------
\* models.py: AbstractRoot
\* ------------------------------------------------------------------------
\* Python lists are objects: lists is the sequence of the list objects alive,
\* and a list is named by its index. pull_events copies the list of the
\* aggregate into a new list, clears the aggregate's own list in place and
\* returns the copy.
\* a pull that returns the copy and leaves the aggregate's list as it was
pull_events_keep(lists, self) ==
    [heap |-> Append(lists, lists[self]), ret |-> Len(lists) + 1]

\* a pull that returns the aggregate's own list, which it then clears
pull_events_alias(lists, self) ==
    [heap |-> [lists EXCEPT ![self] = <<>>], ret |-> self]

pull_events(lists, self) ==
    LET events == Len(lists) + 1
        copied == Append(lists, lists[self])
    IN [heap |-> [copied EXCEPT ![self] = <<>>], ret |-> events]

\* list.append on the aggregate's list, as domain code does to record an event
append_event(lists, self, event) == [lists EXCEPT ![self] = Append(@, event)]

\* ------------------------------------------------------------------------
\* transactions.py: atomic, over the database connection
\* ------------------------------------------------------------------------
NewConnection ==
    [in_atomic_block |-> FALSE, savepoint_ids |-> <<>>, savepoint_state |-> 0,
     run_on_commit |-> <<>>, rows |-> [a \in Aggs |-> NoRow], undo |-> <<>>]

Last(s) == s[Len(s)]
ButLast(s) == SubSeq(s, 1, Len(s) - 1)

\* `with transaction.atomic():` entered. The outermost block begins the
\* transaction, an inner block takes a savepoint.
AtomicEnter(c) ==
    IF ~c.in_atomic_block
    THEN [c EXCEPT !.in_atomic_block = TRUE, !.undo = <<c.rows>>]
    ELSE [c EXCEPT !.savepoint_state = @ + 1,
                   !.savepoint_ids = Append(@, c.savepoint_state + 1),
                   !.undo = Append(@, c.rows)]

RECURSIVE KeepHooksOutside(_, _)
KeepHooksOutside(hooks, sid) ==
    IF hooks = <<>> THEN <<>>
    ELSE IF sid \in Head(hooks).sids THEN KeepHooksOutside(Tail(hooks), sid)
    ELSE <<Head(hooks)>> \o KeepHooksOutside(Tail(hooks), sid)

\* The block left: with an exception (raised) the savepoint or the transaction
\* is rolled back and the hooks registered under it are dropped; without, the
\* savepoint is released or the transaction commits, and the commit hooks are
\* handed back to be run.
AtomicExit(c, raised) ==
    IF c.savepoint_ids # <<>>
    THEN IF raised
         THEN [c |-> [c EXCEPT !.savepoint_ids = ButLast(@),
                               !.rows = Last(c.undo),
                               !.undo = ButLast(@),
                               !.run_on_commit = KeepHooksOutside(@, Last(c.savepoint_ids))],
               hooks |-> <<>>]
         ELSE [c |-> [c EXCEPT !.savepoint_ids = ButLast(@), !.undo = ButLast(@)],
               hooks |-> <<>>]
    ELSE IF raised
         THEN [c |-> [c EXCEPT !.in_atomic_block = FALSE, !.rows = c.undo[1],
                               !.undo = <<>>, !.run_on_commit = <<>>],
               hooks |-> <<>>]
         ELSE [c |-> [c EXCEPT !.in_atomic_block = FALSE, !.undo = <<>>,
                               !.run_on_commit = <<>>],
               hooks |-> c.run_on_commit]

\* The wrapper of atomic(func): a result that is a Failure is raised inside the
\* block, so the block is left with an exception.
WrapperRaises(result) == result.kind # "Success"

\* transaction.on_commit(func, robust=True): kept for the commit inside an atomic
\* block, run at once outside of one.
on_commit(c, hook) ==
    IF c.in_atomic_block
    THEN [c |-> [c EXCEPT !.run_on_commit =
                    Append(@, [sids |-> Range(c.savepoint_ids), events |-> hook.events,
                               store |-> hook.store])],
          hooks |-> <<>>]
    ELSE [c |-> c, hooks |-> <<hook>>]

\* run_and_clear_commit_hooks: each hook is partial(broker.dispatch, events)
RECURSIVE RunHooks(_, _, _)
RunHooks(b, hooks, bad) ==
    IF hooks = <<>> THEN b
    ELSE RunHooks(dispatch(b, Head(hooks).events, bad), Tail(hooks), bad)

DispatchEntries(hooks) ==
    [i \in 1..Len(hooks) |-> [store |-> hooks[i].store, events |-> hooks[i].events]]

\* ------------------------------------------------------------------------
\* repository.py: store
\* ------------------------------------------------------------------------
Success(value) == [kind |-> "Success", value |-> value]
Failure(error, field) == [kind |-> "Failure", error |-> error, field |-> field]
Raised(exc) == [kind |-> "raise", exc |-> exc]

\* instance.save() on a table whose email column is unique: an insert or an
\* update by primary key, refused when another row holds the email.
UniqueViolation(c, a) == \E other \in Aggs \ {a} : c.rows[other] = email[a]

_store_instance(c, a) == [c EXCEPT !.rows[a] = email[a]]

\* store, lines 139-140: dispatch of the pulled events is bound into a hook and
\* handed to transaction.on_commit.
\* the dispatch called at once, as InMemoryRepository.store does
ScheduleDispatchNow(c, events, store) ==
    [c |-> c, hooks |-> <<[events |-> events, store |-> store]>>]

\* the hook built and never registered
ScheduleDispatchDropped(c, events, store) == [c |-> c, hooks |-> <<>>]

ScheduleDispatch(c, events, store) == on_commit(c, [events |-> events, store |-> store])

\* History: what became of the writes of each store() call.
MarkCommitted(log) ==
    [i \in 1..Len(log) |->
        IF log[i].status = "open" THEN [log[i] EXCEPT !.status = "committed"] ELSE log[i]]

MarkRolledBack(log, sidsGone, all) ==
    [i \in 1..Len(log) |->
        IF log[i].status = "open" /\ (all \/ log[i].sids \cap sidsGone # {})
        THEN [log[i] EXCEPT !.status = "rolledback"] ELSE log[i]]

\* The status the history gives to the open stores when a block is left.
AfterExit(log, c, raised) ==
    IF c.savepoint_ids # <<>>
    THEN IF raised THEN MarkRolledBack(log, {Last(c.savepoint_ids)}, FALSE) ELSE log
    ELSE IF raised THEN MarkRolledBack(log, {}, TRUE) ELSE MarkCommitted(log)

\* DjangoRepository.store(instance), decorated with transactions.atomic
DjangoStore(a) ==
    /\ repository = "DjangoRepository"
    /\ Len(store_log) < MaxStores
    /\ connection.in_atomic_block => connection.savepoint_state < MaxSavepoints
    /\ LET n == Len(store_log) + 1
           c1 == AtomicEnter(connection)
       IN IF UniqueViolation(c1, a)
          THEN \* save() raises IntegrityError: the block is left with the exception
               /\ connection' = AtomicExit(c1, TRUE).c
               /\ store_log' = Append(store_log,
                      [agg |-> a, repo |-> "django", pending |-> domain_events[a],
                       sids |-> Range(c1.savepoint_ids), status |-> "rolledback",
                       conflict |-> TRUE, result |-> Raised("IntegrityError")])
               /\ UNCHANGED <<domain_events, dispatch_log, broker>>
          ELSE LET c2 == _store_instance(c1, a)
                   p == pull_events(<<domain_events[a]>>, 1)
                   events == p.heap[p.ret]
                   sch == ScheduleDispatch(c2, events, n)
                   result == Success(a)
                   x == AtomicExit(sch.c, WrapperRaises(result))
                   run == sch.hooks \o x.hooks
                   entry == [agg |-> a, repo |-> "django", pending |-> domain_events[a],
                             sids |-> Range(c1.savepoint_ids), status |-> "open",
                             conflict |-> FALSE, result |-> result]
               IN /\ connection' = x.c
                  /\ domain_events' = [domain_events EXCEPT ![a] = p.heap[1]]
                  /\ broker' = RunHooks(broker, run, raising)
                  /\ dispatch_log' = dispatch_log \o DispatchEntries(run)
                  /\ store_log' = AfterExit(Append(store_log, entry), sch.c,
                                            WrapperRaises(result))
    /\ UNCHANGED <<email, event_count, repository, instances, raising, call_result,
                   besideStore>>

\* InMemoryRepository.store(instance)
InMemoryStore(a) ==
    /\ repository = "InMemoryRepository"
    /\ Len(store_log) < MaxStores
    /\ LET n == Len(store_log) + 1
           p == pull_events(<<domain_events[a]>>, 1)
           events == p.heap[p.ret]
       IN /\ instances' = Append(instances, [id |-> a, email |-> email[a]])
          /\ domain_events' = [domain_events EXCEPT ![a] = p.heap[1]]
          /\ broker' = dispatch(broker, events, raising)
          /\ dispatch_log' = Append(dispatch_log, [store |-> n, events |-> events])
          /\ store_log' = Append(store_log,
                 [agg |-> a, repo |-> "memory", pending |-> domain_events[a],
                  sids |-> {}, status |-> "committed", conflict |-> FALSE,
                  result |-> Success(a)])
    /\ UNCHANGED <<email, event_count, connection, repository, raising, call_result,
                   besideStore>>

\* UserManager.create_user(email, password): the user is built and saved; an
\* IntegrityError that names the unique email is raised again as
\* ValidationError(code='email_taken').
create_user(c, a) ==
    IF UniqueViolation(c, a)
    THEN [c |-> c, result |-> Raised("ValidationError:email_taken")]
    ELSE [c |-> _store_instance(c, a), result |-> Success(a)]

CreateUser(a) ==
    /\ repository = "DjangoRepository"
    /\ Len(store_log) < MaxStores
    /\ LET r == create_user(connection, a)
       IN /\ connection' = r.c
          /\ store_log' = Append(store_log,
                 [agg |-> a, repo |-> "manager", pending |-> <<>>,
                  sids |-> Range(connection.savepoint_ids),
                  status |-> IF r.result.kind = "raise" THEN "rolledback"
                             ELSE IF connection.in_atomic_block THEN "open"
                             ELSE "committed",
                  conflict |-> UniqueViolation(connection, a), result |-> r.result])
    /\ UNCHANGED <<domain_events, email, event_count, repository, instances, dispatch_log,
                   call_result, broker, raising,
                   besideStore>>

\* Domain code records an event on an aggregate.
EventTypeOf(n) == IF n % 2 = 1 THEN "EventA" ELSE "EventB"

AppendEvent(a) ==
    /\ event_count < MaxEvents
    /\ event_count' = event_count + 1
    /\ domain_events' = [domain_events EXCEPT
           ![a] = append_event(<<domain_events[a]>>, 1, DomainEvent(event_count + 1, EventTypeOf(event_count + 1)))[1]]
    /\ UNCHANGED <<email, connection, repository, instances, store_log, dispatch_log, call_result,
                   broker, raising,
                   besideStore>>

\* A caller opens an atomic block around its repository calls.
EnterAtomic ==
    /\ Len(connection.undo) < MaxDepth
    /\ connection.in_atomic_block => connection.savepoint_state < MaxSavepoints
    /\ connection' = AtomicEnter(connection)
    /\ UNCHANGED <<domain_events, email, event_count, repository, instances, store_log, dispatch_log,
                   call_result, broker, raising,
                   besideStore>>

\* The caller's block is left, normally (raised = FALSE) or with an exception
\* or a Failure result (raised = TRUE).
LeaveAtomic(raised) ==
    /\ connection.in_atomic_block
    /\ LET x == AtomicExit(connection, raised)
       IN /\ connection' = x.c
          /\ broker' = RunHooks(broker, x.hooks, raising)
          /\ dispatch_log' = dispatch_log \o DispatchEntries(x.hooks)
          /\ store_log' = AfterExit(store_log, connection, raised)
    /\ UNCHANGED <<domain_events, email, event_count, repository, instances, call_result, raising,
                   besideStore>>

ExitAtomicOk == LeaveAtomic(FALSE)
ExitAtomicRaised == LeaveAtomic(TRUE)

\* The listeners registered while the modules were imported.
StartupBroker(b) ==
    register_listener(
        register_listener(register_listener(b, "EventA", "l1"), "EventA", "l2"),
        "EventB", "l2")

\* The parts of the state a specification leaves aside.
PullIdle == heap = <<>> /\ pull_log = <<>> /\ since_pull = <<>>
LockIdle == sessions = <<>> /\ table = <<>> /\ row_lock = <<>>
QueryIdle == stored = <<>> /\ criteria = <<>> /\ pagination = <<>> /\ query_result = <<>>
ResolveIdle == settings = <<>> /\ broker_objects = <<>> /\ resolve_cache = <<>> /\ resolve_log = <<>> /\ repository_broker = <<>>
CompileIdle == criteria_type = [kind |-> "none"] /\ filters_class = [kind |-> "none"] /\ bound_values = [kind |-> "none"]

Init ==
    /\ PullIdle /\ LockIdle /\ QueryIdle /\ ResolveIdle /\ CompileIdle
    /\ domain_events = [a \in Aggs |-> <<>>]
    /\ email \in {f \in [Aggs -> Emails] : f["a1"] = "a@x.com"}
    /\ event_count = 0
    /\ connection = NewConnection
    /\ repository \in {"DjangoRepository", "InMemoryRepository"}
    /\ instances = <<>>
    /\ broker = StartupBroker(NewDjangoSignalBroker)
    /\ raising = {"l1"}
    /\ store_log = <<>>
    /\ dispatch_log = <<>>
    /\ call_result = None

Next ==
    \/ \E a \in Aggs : AppendEvent(a)
    \/ EnterAtomic
    \/ ExitAtomicOk
    \/ ExitAtomicRaised
    \/ \E a \in Aggs : DjangoStore(a)
    \/ \E a \in Aggs : InMemoryStore(a)

Spec == Init /\ [][Next]_vars

\* Account creation through the manager next to stores of the repository.
NextConflict ==
    \/ EnterAtomic
    \/ ExitAtomicOk
    \/ ExitAtomicRaised
    \/ \E a \in Aggs : DjangoStore(a)
    \/ \E a \in Aggs : CreateUser(a)

SpecConflict == Init /\ [][NextConflict]_vars

\* ------------------------------------------------------------------------
\* Properties of store and of the dispatch of events
\* ------------------------------------------------------------------------
StoreIds == 1..Len(store_log)
DispatchesOf(n) == {i \in 1..Len(dispatch_log) : dispatch_log[i].store = n}
CallsFor(event) == {k \in 1..Len(broker.calls) : broker.calls[k].event = event}
Scheduled(n) == {i \in 1..Len(connection.run_on_commit) : connection.run_on_commit[i].store = n}
\* the places where an event is handed to dispatch: <<pass, position>>
DispatchedAt(event) ==
    {<<i, k>> \in (1..Len(dispatch_log)) \X (1..MaxEvents) :
        k <= Len(dispatch_log[i].events) /\ dispatch_log[i].events[k] = event}
ScheduledAt(event) ==
    {<<i, k>> \in (1..Len(connection.run_on_commit)) \X (1..MaxEvents) :
        /\ k <= Len(connection.run_on_commit[i].events)
        /\ connection.run_on_commit[i].events[k] = event}
CreatedEvents == {DomainEvent(n, EventTypeOf(n)) : n \in 1..event_count}
PendingEvents == UNION {Range(domain_events[a]) : a \in Aggs}

\* C1: the events pulled by a DjangoRepository.store call are dispatched only
\* once the outermost transaction around the call has committed; when the call's
\* transaction (its own, a savepoint around it or the outermost one) is rolled
\* back, dispatch is never invoked for it and no listener is called with one of
\* its events.
C1_DispatchOnlyAfterCommit ==
    \A n \in StoreIds :
        store_log[n].repo = "django" =>
            /\ DispatchesOf(n) # {} => store_log[n].status = "committed"
            /\ (store_log[n].status # "committed" /\ store_log[n].result.kind = "Success") =>
                   \A e \in Range(store_log[n].pending) :
                       CallsFor(e) = {} /\ DispatchedAt(e) = {}

\* C1 witness: a store with pending events inside an outer transaction that was
\* rolled back, next to a store whose transaction committed and was dispatched.
C1_Witness ==
    \E n, m \in StoreIds :
        /\ store_log[n].repo = "django" /\ store_log[n].status = "rolledback"
        /\ store_log[n].result.kind = "Success" /\ store_log[n].pending # <<>>
        /\ store_log[m].repo = "django" /\ store_log[m].status = "committed"
        /\ store_log[m].pending # <<>> /\ DispatchesOf(m) # {}
        /\ \E e \in Range(store_log[m].pending) : CallsFor(e) # {}

\* C2: a store whose transaction committed got exactly one dispatch pass, made
\* of the events that were pending on the aggregate when store was called, in
\* the order they were appended; no event is handed to dispatch a second time,
\* so a second store of the aggregate without a new event dispatches none again.
C2_OnePassInAppendOrder ==
    /\ \A n \in StoreIds :
           (store_log[n].status = "committed" /\ store_log[n].repo # "manager") =>
               /\ Cardinality(DispatchesOf(n)) = 1
               /\ \A i \in DispatchesOf(n) : dispatch_log[i].events = store_log[n].pending
    /\ \A e \in CreatedEvents : Cardinality(DispatchedAt(e)) <= 1

\* C2 witness: an aggregate stored twice, both committed, the first with two
\* events and the second with none.
C2_Witness ==
    \E n, m \in StoreIds :
        /\ n < m /\ store_log[n].agg = store_log[m].agg
        /\ store_log[n].status = "committed" /\ store_log[m].status = "committed"
        /\ Len(store_log[n].pending) = 2 /\ store_log[m].pending = <<>>
        /\ Cardinality(DispatchesOf(m)) = 1

\* C9 as claimed: every event constructed is pending on its aggregate, scheduled
\* for dispatch, or dispatched.
C9_NoEventDropped ==
    \A e \in CreatedEvents :
        e \in PendingEvents \/ ScheduledAt(e) # {} \/ DispatchedAt(e) # {}

\* C9 as amended: an event pulled by a store stays scheduled exactly once while
\* the store's transaction is open, is handed to dispatch exactly once when that
\* transaction has committed, and is discarded (no longer pending, scheduled or
\* dispatched) when it was rolled back; an event no store pulled is pending.
C9_DroppedOnlyByRollback ==
    /\ \A n \in StoreIds : \A e \in Range(store_log[n].pending) :
           store_log[n].result.kind = "Success" =>
               /\ e \notin PendingEvents
               /\ Cardinality(ScheduledAt(e)) = (IF store_log[n].status = "open" THEN 1 ELSE 0)
               /\ Cardinality(DispatchedAt(e)) =
                      (IF store_log[n].status = "committed" THEN 1 ELSE 0)
    /\ \A e \in CreatedEvents :
           e \in PendingEvents \/
           \E n \in StoreIds : e \in Range(store_log[n].pending)
                               /\ store_log[n].result.kind = "Success"

\* C9 witness: events scheduled by an open store, and events of a rolled back
\* store that are gone.
C9_Witness ==
    \E n, m \in StoreIds :
        /\ store_log[n].status = "open" /\ store_log[n].pending # <<>>
        /\ store_log[m].status = "rolledback" /\ store_log[m].pending # <<>>
        /\ store_log[m].result.kind = "Success"

\* C6 as claimed: a store (or a user creation) that hits the unique constraint
\* on email returns Failure(ConflictError) coded for the field email.
C6_ConflictIsTypedFailure ==
    \A n \in StoreIds :
        store_log[n].conflict => store_log[n].result = Failure("ConflictError", "email")

\* ------------------------------------------------------------------------
\* The broker on its own: listeners registered, lists of events dispatched
\* ------------------------------------------------------------------------
\* The listeners the broker holds for an event type, in the order it calls them.
Registered(b, t) ==
    IF b.kind = "DjangoSignal"
    THEN (IF t \in DOMAIN b.signals THEN b.signals[t] ELSE <<>>)
    ELSE (IF t \in DOMAIN b.listeners THEN b.listeners[t] ELSE <<>>)

\* @event_listener(event_class) applied to a listener function
RegisterListener(t, l) ==
    /\ Len(Registered(broker, "EventA")) + Len(Registered(broker, "EventB")) < MaxRegistrations
    /\ broker' = register_listener(broker, t, l)
    /\ UNCHANGED <<txVars, raising,
                   besideStore>>

\* The events a caller hands over: new events, of any types.
NewEvents(types) == [i \in 1..Len(types) |-> DomainEvent(event_count + i, types[i])]

TypeLists == {<<>>} \cup {<<t>> : t \in EventTypes}
             \cup {<<t, u>> : t \in EventTypes, u \in EventTypes}

\* broker.dispatch(events)
Dispatch(types) ==
    /\ Len(dispatch_log) < MaxDispatches
    /\ event_count + Len(types) <= MaxEvents
    /\ LET events == NewEvents(types)
       IN /\ broker' = dispatch(broker, events, raising)
          /\ event_count' = event_count + Len(types)
          /\ dispatch_log' = Append(dispatch_log,
                 [store |-> 0, events |-> events,
                  registered |-> [t \in EventTypes |-> Registered(broker, t)],
                  first |-> Len(broker.calls) + 1, last |-> Len(broker'.calls)])
    /\ UNCHANGED <<domain_events, email, connection, repository, instances, store_log,
                   call_result, raising,
                   besideStore>>

InitBroker ==
    /\ PullIdle /\ LockIdle /\ QueryIdle /\ ResolveIdle /\ CompileIdle
    /\ domain_events = [a \in Aggs |-> <<>>]
    /\ email = [a \in Aggs |-> IF a = "a1" THEN "a@x.com" ELSE "b@x.com"]
    /\ event_count = 0
    /\ connection = NewConnection
    /\ repository = "DjangoRepository"
    /\ instances = <<>>
    /\ broker \in {NewDjangoSignalBroker, NewInMemoryBroker(TRUE), NewInMemoryBroker(FALSE)}
    /\ raising \in SUBSET Listeners
    /\ store_log = <<>>
    /\ dispatch_log = <<>>
    /\ call_result = None

NextBroker ==
    \/ \E t \in EventTypes, l \in Listeners : RegisterListener(t, l)
    \/ \E types \in TypeLists : Dispatch(types)

SpecBroker == InitBroker /\ [][NextBroker]_vars

InvokesListeners(b) == b.kind = "DjangoSignal" \/ b.call_listeners

\* the calls made during one dispatch pass
CallsIn(d) == {broker.calls[k] : k \in d.first..d.last}

\* C7 as claimed: in a broker that invokes listeners, every dispatch pass calls
\* every listener registered for the type of each of its events, whether or not
\* some listener raised, and every call that raised was logged.
C7_EveryListenerStillInvoked ==
    InvokesListeners(broker) =>
        \A i \in 1..Len(dispatch_log) :
            LET d == dispatch_log[i]
            IN \A k \in 1..Len(d.events) :
                   \A l \in Range(d.registered[d.events[k].type]) :
                       /\ [listener |-> l, event |-> d.events[k]] \in CallsIn(d)
                       /\ l \in raising => d.events[k] \in Range(broker.logged)

\* The calls a dispatch pass makes when each event, in sequence order, goes to
\* the listeners registered for its own type, in registration order.
RECURSIVE CallsInOrder(_, _)
CallsInOrder(events, registered) ==
    IF events = <<>> THEN <<>>
    ELSE CallsOf(registered[Head(events).type], Head(events))
         \o CallsInOrder(Tail(events), registered)

\* C11 as claimed: in a broker that invokes listeners, the calls of a dispatch
\* pass are, event after event in sequence order, the calls of exactly the
\* listeners registered for the event's own type, in registration order; an
\* event with no listener adds no call and the events after it are delivered.
C11_ExactTypeInRegistrationOrder ==
    InvokesListeners(broker) =>
        \A i \in 1..Len(dispatch_log) :
            LET d == dispatch_log[i]
            IN SubSeq(broker.calls, d.first, d.last) = CallsInOrder(d.events, d.registered)

\* ------------------------------------------------------------------------
\* pull_events on the list objects
\* ------------------------------------------------------------------------
\* The state the other specifications start from, on the parts they leave aside.
TxIdle ==
    /\ domain_events = [a \in Aggs |-> <<>>]
    /\ email = [a \in Aggs |-> IF a = "a1" THEN "a@x.com" ELSE "b@x.com"]
    /\ event_count = 0
    /\ connection = NewConnection
    /\ repository = "DjangoRepository"
    /\ instances = <<>>
    /\ store_log = <<>>
    /\ dispatch_log = <<>>
    /\ call_result = None
BrokerIdle == broker = NewDjangoSignalBroker /\ raising = {}

\* The aggregates are the list objects 1 and 2: AbstractRoot.__init__ gives each
\* root an empty list of its own.
Roots == {1, 2}

besidePull == <<domain_events, email, connection, repository, instances, store_log,
                dispatch_log, call_result, brokerVars, lockVars, queryVars, resolveVars, compileVars>>

\* Domain code appends an event to the root's list.
PullAppend(a) ==
    /\ event_count < MaxEvents
    /\ event_count' = event_count + 1
    /\ heap' = append_event(heap, a, DomainEvent(event_count + 1, EventTypeOf(event_count + 1)))
    /\ since_pull' = [since_pull EXCEPT ![a] = FALSE]
    /\ UNCHANGED <<pull_log, besidePull>>

\* root.pull_events()
Pull(a) ==
    /\ Len(pull_log) < MaxPulls
    /\ LET p == pull_events(heap, a)
       IN /\ heap' = p.heap
          /\ pull_log' = Append(pull_log,
                 [root |-> a, ret |-> p.ret, expected |-> heap[a],
                  successive |-> since_pull[a]])
    /\ since_pull' = [since_pull EXCEPT ![a] = TRUE]
    /\ UNCHANGED <<event_count, besidePull>>

InitPull ==
    /\ TxIdle /\ BrokerIdle /\ LockIdle /\ QueryIdle /\ ResolveIdle /\ CompileIdle
    /\ heap = [a \in Roots |-> <<>>]
    /\ pull_log = <<>>
    /\ since_pull = [a \in Roots |-> FALSE]

NextPull ==
    \/ \E a \in Roots : PullAppend(a)
    \/ \E a \in Roots : Pull(a)

SpecPull == InitPull /\ [][NextPull]_vars

\* C3: the list a pull returned holds the events that were pending on the root
\* when it was called, in append order, and keeps holding exactly those whatever
\* is appended to the root afterwards; a pull that follows a pull of the same
\* root with no append in between returned the empty list.
C3_PullDrainsOnce ==
    \A i \in 1..Len(pull_log) :
        /\ heap[pull_log[i].ret] = pull_log[i].expected
        /\ pull_log[i].successive => heap[pull_log[i].ret] = <<>>

\* C3 witness: a pull that returned events, a second pull right after it, and
\* an event appended to the root after both.
C3_Witness ==
    \E i, j \in 1..Len(pull_log) :
        /\ i < j /\ pull_log[i].root = pull_log[j].root
        /\ pull_log[i].expected # <<>> /\ pull_log[j].successive
        /\ heap[pull_log[i].root] # <<>>

\* ------------------------------------------------------------------------
\* Concurrent requests on DjangoRepository: get(for_update) and store
\* ------------------------------------------------------------------------
Requests == {"r1", "r2"}

\* A row or a loaded instance is <<v>>, v the value of its data; <<>> stands for
\* no row and for nothing loaded or written.

besideLock == <<txVars, brokerVars, pullVars, queryVars, resolveVars, compileVars>>

NewSession ==
    [in_atomic_block |-> FALSE, loaded |-> [a \in Aggs |-> <<>>],
     writes |-> [a \in Aggs |-> <<>>], for_update |-> {}]

\* The value of row a as the request's connection reads it: its own write, or
\* else what is committed.
Visible(t, a) ==
    IF sessions[t].writes[a] # <<>> THEN sessions[t].writes[a] ELSE table[a]

\* get / get_by_id, `if for_update: queryset = queryset.select_for_update()`:
\* whether the query is run with the store's locking clause
never_select_for_update(for_update) == FALSE

select_for_update(for_update) == for_update

\* queryset.first(): the matching row with the lowest primary key
FirstOf(S) == CHOOSE a \in S : \A b \in S : a = "a1" \/ b # "a1"

\* The query of get and get_by_id run by request t on the candidate rows: a
\* locking query outside a transaction is refused, a locking query waits while
\* another transaction holds the row, and the row read is locked until the
\* transaction of t ends.
RunQuery(t, candidates, for_update, notFound) ==
    LET found == {a \in candidates : Visible(t, a) # <<>>}
        locking == select_for_update(for_update)
    IN IF locking /\ ~sessions[t].in_atomic_block
       THEN \* raises TransactionManagementError
            UNCHANGED <<sessions, row_lock>>
       ELSE IF found = {}
       THEN \* returns notFound
            UNCHANGED <<sessions, row_lock>>
       ELSE LET a == FirstOf(found)
            IN /\ locking => row_lock[a] \in {None, t}
               /\ row_lock' = IF locking THEN [row_lock EXCEPT ![a] = t] ELSE row_lock
               /\ sessions' = [sessions EXCEPT
                      ![t].loaded[a] = Visible(t, a),
                      ![t].for_update = IF for_update /\ sessions[t].in_atomic_block
                                        THEN @ \cup {a} ELSE @]

\* DjangoRepository.get(criteria, for_update) with a criteria that binds some
\* field; matched is the set of rows its filters select.
ConcurrentGet(t, matched, for_update) ==
    /\ RunQuery(t, matched, for_update, Failure("NotFoundError", "details"))
    /\ UNCHANGED <<table, besideLock>>

\* DjangoRepository.get_by_id(id, for_update)
ConcurrentGetById(t, id, for_update) ==
    /\ RunQuery(t, {id}, for_update, Failure("NotFoundError", None))
    /\ UNCHANGED <<table, besideLock>>

Changed(instance) == <<instance[1] + 1>>

\* The request changes the instance it loaded and calls store(instance): the
\* row is written (which takes its lock) inside store's atomic block, which is
\* the whole transaction when the request opened none.
ConcurrentStore(t, a) ==
    /\ sessions[t].loaded[a] # <<>>
    /\ sessions[t].loaded[a][1] < MaxValue
    /\ row_lock[a] \in {None, t}
    /\ IF sessions[t].in_atomic_block
       THEN /\ sessions' = [sessions EXCEPT ![t].writes[a] = Changed(sessions[t].loaded[a]),
                                            ![t].loaded[a] = Changed(sessions[t].loaded[a])]
            /\ row_lock' = [row_lock EXCEPT ![a] = t]
            /\ UNCHANGED table
       ELSE /\ table' = [table EXCEPT ![a] = Changed(sessions[t].loaded[a])]
            /\ sessions' = [sessions EXCEPT ![t].loaded[a] = Changed(sessions[t].loaded[a])]
            /\ UNCHANGED row_lock
    /\ UNCHANGED besideLock

\* The request opens its transaction.
ConcurrentBegin(t) ==
    /\ ~sessions[t].in_atomic_block
    /\ sessions' = [sessions EXCEPT ![t].in_atomic_block = TRUE]
    /\ UNCHANGED <<table, row_lock, besideLock>>

\* The transaction of the request ends, committed or rolled back: its locks are
\* released, and the request is over.
ConcurrentEnd(t, commit) ==
    /\ sessions[t].in_atomic_block
    /\ table' = [a \in Aggs |->
                    IF commit /\ sessions[t].writes[a] # <<>>
                    THEN sessions[t].writes[a] ELSE table[a]]
    /\ row_lock' = [a \in Aggs |-> IF row_lock[a] = t THEN None ELSE row_lock[a]]
    /\ sessions' = [sessions EXCEPT ![t] = NewSession]
    /\ UNCHANGED besideLock

ConcurrentCommit(t) == ConcurrentEnd(t, TRUE)
ConcurrentRollback(t) == ConcurrentEnd(t, FALSE)

InitLock ==
    /\ TxIdle /\ BrokerIdle /\ PullIdle /\ QueryIdle /\ ResolveIdle /\ CompileIdle
    /\ sessions = [t \in Requests |-> NewSession]
    /\ table \in {[a \in Aggs |-> <<0>>], [a \in Aggs |-> IF a = "a1" THEN <<0>> ELSE <<>>]}
    /\ row_lock = [a \in Aggs |-> None]

NextLock ==
    \/ \E t \in Requests : ConcurrentBegin(t)
    \/ \E t \in Requests, m \in SUBSET Aggs, f \in BOOLEAN : ConcurrentGet(t, m, f)
    \/ \E t \in Requests, a \in Aggs, f \in BOOLEAN : ConcurrentGetById(t, a, f)
    \/ \E t \in Requests, a \in Aggs : ConcurrentStore(t, a)
    \/ \E t \in Requests : ConcurrentCommit(t)
    \/ \E t \in Requests : ConcurrentRollback(t)

SpecLock == InitLock /\ [][NextLock]_vars

\* C8: of the transactions that obtained a record through get or get_by_id with
\* for_update=True, at most one at a time holds a given aggregate; it holds the
\* row's lock until it commits or rolls back, and what it read stays the
\* committed state of the row (or its own write on top of it), so no other
\* request's store falls between its read and its store.
C8_ForUpdateSerializes ==
    \A a \in Aggs :
        /\ Cardinality({t \in Requests : a \in sessions[t].for_update}) <= 1
        /\ \A t \in Requests :
               a \in sessions[t].for_update =>
                   /\ row_lock[a] = t
                   /\ sessions[t].loaded[a] =
                          (IF sessions[t].writes[a] # <<>> THEN sessions[t].writes[a]
                           ELSE table[a])

\* C8 witness: a request holds an aggregate for update, reading what an earlier
\* transaction committed, while the other request is inside a transaction in
\* which it loaded the same aggregate before.
C8_Witness ==
    \E t, u \in Requests, a \in Aggs :
        /\ t # u /\ a \in sessions[t].for_update
        /\ sessions[t].loaded[a][1] > 0
        /\ sessions[u].in_atomic_block /\ sessions[u].loaded[a] # <<>>

\* ------------------------------------------------------------------------
\* python str
\* ------------------------------------------------------------------------
\* Where the code takes a str apart, the str is the sequence of its characters,
\* so that startswith, endswith, replace and split are computed character by
\* character as python does.

\* s.startswith(prefix)
startswith(s, prefix) ==
    Len(prefix) <= Len(s) /\ SubSeq(s, 1, Len(prefix)) = prefix

\* s.endswith(suffix)
endswith(s, suffix) ==
    Len(suffix) <= Len(s) /\ SubSeq(s, Len(s) - Len(suffix) + 1, Len(s)) = suffix

\* s.replace(old, '', count): the first count occurrences of old are removed,
\* scanning from the left; every occurrence when count is negative (no count
\* given). An empty old leaves s as it is.
RECURSIVE replace(_, _, _)
replace(s, old, count) ==
    IF old = <<>> \/ count = 0 \/ Len(s) < Len(old) THEN s
    ELSE IF startswith(s, old)
    THEN replace(SubSeq(s, Len(old) + 1, Len(s)), old, count - 1)
    ELSE <<Head(s)>> \o replace(Tail(s), old, count)

\* The strings of the model.
Underscore == <<"_">>
Str_a == <<"a">>
Str_b == <<"b">>
Str_a_b == <<"a", "_", "b">>
Str__b == <<"_", "b">>
Str_order == <<"o", "r", "d", "e", "r">>
Str_min == <<"_", "m", "i", "n">>
Str_max == <<"_", "m", "a", "x">>
Str_emin == <<"_", "e", "m", "i", "n">>
Str_emax == <<"_", "e", "m", "a", "x">>
Str_after == <<"_", "a", "f", "t", "e", "r">>
Str_before == <<"_", "b", "e", "f", "o", "r", "e">>
Str_iafter == <<"_", "i", "a", "f", "t", "e", "r">>
Str_ibefore == <<"_", "i", "b", "e", "f", "o", "r", "e">>
Str_rank == <<"r", "a", "n", "k">>
Str_score == <<"s", "c", "o", "r", "e">>
Str_email == <<"e", "m", "a", "i", "l">>
Str_members == <<"m", "e", "m", "b", "e", "r", "s">>
Str_nickname == <<"n", "i", "c", "k", "n", "a", "m", "e">>
Dunder == <<"_", "_">>
Str__lt == <<"_", "_", "l", "t">>
Str__gt == <<"_", "_", "g", "t">>
Str__lte == <<"_", "_", "l", "t", "e">>
Str__gte == <<"_", "_", "g", "t", "e">>
Str__eq == <<"_", "_", "e", "q">>
Str__exact == <<"_", "_", "e", "x", "a", "c", "t">>
Str__in == <<"_", "_", "i", "n">>
Str__icontains == <<"_", "_", "i", "c", "o", "n", "t", "a", "i", "n", "s">>

\* s.split('__')[0]
RECURSIVE FirstPart(_)
FirstPart(s) ==
    IF Len(s) < Len(Dunder) THEN s
    ELSE IF startswith(s, Dunder) THEN <<>>
    ELSE <<Head(s)>> \o FirstPart(Tail(s))

\* ------------------------------------------------------------------------
\* filters.py: Filters built from a criteria type and bound to request data
\* ------------------------------------------------------------------------
\* An optional python value is <<>> for None and <<v>> for the value v.

\* UserAccountCriteria declares nothing beside the inherited `order`;
\* EmailCriteria stands for a Criteria subclass that declares `email: str`.
CriteriaTypes == {"UserAccountCriteria", "EmailCriteria"}

\* get_all_annotations(criteria)
get_all_annotations(type) ==
    IF type = "EmailCriteria" THEN {"order", "email"} ELSE {"order"}

\* from_criteria: the names of the filters of the generated FilterSet, one
\* CharFilter per str field and the OrderingFilter under `order`
FilterNames(type) == get_all_annotations(type)

\* ordering_filter(ordering_fields=unique_fields): the params it accepts
OrderingChoices(type) ==
    IF "email" \in get_all_annotations(type) THEN {"email", "-email"} ELSE {}

\* Request data: a mapping of some keys to strings.
DataKeys == {"email", "order", "unknown"}

DataValues(k) ==
    IF k = "email" THEN {"", "a@x.com", "c@x.com"}
    ELSE IF k = "order" THEN {"", "email", "-email", "bogus"}
    ELSE {"x"}

AllDataValues == UNION {DataValues(k) : k \in DataKeys}

\* The data a Filters of the type is bound to; a key that names no filter of
\* the type is an unknown key, and "unknown" stands for all of them.
RawData(type) ==
    UNION {{d \in [S -> AllDataValues] : \A k \in S : d[k] \in DataValues(k)} :
              S \in SUBSET (FilterNames(type) \cup {"unknown"})}

\* FilterSet.__init__(data): is_bound = data is not None; self.data = data or {}
NewFilters(type, data) ==
    [type |-> type, is_bound |-> data # <<>>,
     data |-> IF data = <<>> THEN <<>> ELSE data[1], validated |-> FALSE]

\* `not criteria.data`
DataIsEmpty(c) == DOMAIN c.data = {}

\* The value of the `order` param split at commas (the values used hold one term).
SplitOrder(value) == IF value = "" THEN <<>> ELSE <<value>>

\* form.errors: the ordering filter refuses a term that is not one of its choices
FormHasErrors(c) ==
    /\ "order" \in DOMAIN c.data
    /\ \E term \in Range(SplitOrder(c.data["order"])) : term \notin OrderingChoices(c.type)

\* FilterSet.is_valid()
is_valid(c) == c.is_bound /\ ~FormHasErrors(c)

\* form.cleaned_data of a bound and validated form: a CharFilter cleans an absent
\* or blank value to '', the OrderingFilter an absent value to None and a blank
\* one to []; a field with an error has no entry.
cleaned_data(c) ==
    LET names == {n \in FilterNames(c.type) : n = "order" => ~FormHasErrors(c)}
    IN [n \in names |->
           IF n = "order"
           THEN IF "order" \in DOMAIN c.data THEN <<SplitOrder(c.data["order"])>> ELSE <<>>
           ELSE IF n \in DOMAIN c.data THEN <<c.data[n]>> ELSE <<"">>]

\* filterset_to_dict: the cleaned values that are not None
filterset_to_dict(c) ==
    LET cleaned == cleaned_data(c)
    IN [n \in {m \in DOMAIN cleaned : cleaned[m] # <<>>} |-> cleaned[n]]

\* _create_criteria: None when no declared field has an entry, else the
\* dataclass, its missing fields left at their default None
_create_criteria(type, filters_dict) ==
    LET kwargs == get_all_annotations(type) \cap DOMAIN filters_dict
    IN IF kwargs = {} THEN [kind |-> "None"]
       ELSE [kind |-> "criteria",
             fields |-> [n \in get_all_annotations(type) |->
                            IF n \in kwargs THEN filters_dict[n] ELSE <<>>]]

\* Filters.values
values(c) ==
    IF ~is_valid(c) THEN Raised("ValueError")
    ELSE _create_criteria(c.type, filterset_to_dict(c))

\* criteria.values.order
values_order(c) ==
    LET v == values(c)
    IN IF v.kind = "raise" THEN v
       ELSE IF v.kind = "None" THEN Raised("AttributeError")
       ELSE [kind |-> "value", value |-> v.fields["order"]]

\* Filters.expressions_values: field -> value of the lookup `field__exact`
expressions_values(c) ==
    LET v == values(c)
    IN IF v.kind = "raise" THEN v
       ELSE IF v.kind = "None" THEN Raised("AttributeError")
       ELSE [kind |-> "value",
             value |-> [n \in {m \in FilterNames(c.type) :
                                  m # "order" /\ v.fields[m] # <<>>} |-> v.fields[n][1]]]

\* Both properties call is_valid(), which cleans a bound form.
AfterValues(c) == [c EXCEPT !.validated = c.is_bound]

\* ------------------------------------------------------------------------
\* repository.py: get, get_by_id and find of both repositories
\* ------------------------------------------------------------------------
MaxRecords == 2
MaxPage == 2
PageSize == 1

\* The aggregates are named by their primary keys 1..MaxRecords.
RecordIds == 1..MaxRecords

\* The email of each aggregate, and the rank of an email in sort order.
EmailOf(i) == IF i = 1 THEN "b@x.com" ELSE IF i = 2 THEN "a@x.com" ELSE "d@x.com"

EmailRank(e) == IF e = "a@x.com" THEN 1 ELSE IF e = "b@x.com" THEN 2 ELSE 4

\* What a repository may hold: some aggregates, in the order it iterates them
\* (InMemoryRepository._instances; the rows of _get_queryset() as the database
\* returns them while no ordering is asked for).
StoreContents ==
    UNION {{q \in [1..n -> RecordIds] : \A i, j \in 1..n : i # j => q[i] # q[j]} :
              n \in 0..MaxRecords}

\* instance.get_field_value(field): the email of an aggregate named by its
\* primary key, or the field of an aggregate given as the record of its fields
get_field_value(instance, field) ==
    IF field = "email" THEN EmailOf(instance) ELSE instance[field]

\* The place of a field value in the order python compares values by
SortKey(instance, field) ==
    IF field = "email" THEN EmailRank(get_field_value(instance, field))
    ELSE get_field_value(instance, field)

\* The terms of an ordering: ordering_field.startswith("-") and
\* ordering_field.lstrip("-+") of each
StartsWithMinus(ordering_field) == ordering_field \in {"-email", "-rank", "-score"}

LStrip(ordering_field) ==
    IF ordering_field \in {"email", "-email"} THEN "email"
    ELSE IF ordering_field \in {"rank", "-rank", "+rank"} THEN "rank"
    ELSE "score"

\* sorted(result, key=ordering_field_value, reverse=reverse): a stable sort,
\* also when reversed
ComesBefore(x, y, field, reverse) ==
    IF reverse THEN SortKey(x, field) > SortKey(y, field)
    ELSE SortKey(x, field) < SortKey(y, field)

RECURSIVE InsertSorted(_, _, _, _)
InsertSorted(x, s, field, reverse) ==
    IF s = <<>> THEN <<x>>
    ELSE IF ComesBefore(x, Head(s), field, reverse) THEN <<x>> \o s
    ELSE <<Head(s)>> \o InsertSorted(x, Tail(s), field, reverse)

RECURSIVE sorted(_, _, _)
sorted(s, field, reverse) ==
    IF s = <<>> THEN <<>>
    ELSE InsertSorted(s[Len(s)], sorted(SubSeq(s, 1, Len(s) - 1), field, reverse),
                      field, reverse)

\* order_by with the sorts applied in the order of the fields, the first
\* field's sort first
RECURSIVE order_by_forward(_, _)
order_by_forward(instances_, ordering_fields) ==
    IF ordering_fields = <<>> THEN instances_
    ELSE order_by_forward(sorted(instances_, LStrip(Head(ordering_fields)),
                                 StartsWithMinus(Head(ordering_fields))),
                          Tail(ordering_fields))

\* order_by(*ordering_fields): one stable sort per field, the last field first
RECURSIVE order_by(_, _)
order_by(instances_, ordering_fields) ==
    IF ordering_fields = <<>> THEN instances_
    ELSE sorted(order_by(instances_, Tail(ordering_fields)),
                LStrip(Head(ordering_fields)), StartsWithMinus(Head(ordering_fields)))

\* python's s[from:to]
Slice(s, from, to) ==
    LET hi == IF to < Len(s) THEN to ELSE Len(s)
    IN IF from >= hi THEN <<>> ELSE SubSeq(s, from + 1, hi)

\* The fields of the model of the aggregates: `email` a CharField, `rank` and
\* `score` IntegerFields, `members` the reverse side of a relation (a field
\* object without value_from_object). No other name is a field.
ModelFields == {Str_email, Str_rank, Str_score, Str_members}

FieldName(part) ==
    IF part = Str_email THEN "email" ELSE IF part = Str_rank THEN "rank" ELSE "score"

\* Entity.get_field(field_lookup): _meta.get_field raises FieldDoesNotExist for
\* a name that is no field; a field that is no relation ends the walk; the
\* relation without value_from_object raises ValueError.
get_field(field_lookup) ==
    LET part == FirstPart(field_lookup)
    IN IF part \notin ModelFields THEN Raised("FieldDoesNotExist")
       ELSE IF part = Str_members THEN Raised("ValueError")
       ELSE [kind |-> "field", name |-> FieldName(part)]

\* A filter value is an int, a str or a list: [kind, v].
\* field.to_python(value): IntegerField returns an int as it is and raises
\* django's ValidationError (no ValueError) for what int() refuses; CharField
\* returns a str as it is and str(value) for the rest.
to_python(field, value) ==
    IF field = "email"
    THEN IF value.kind = "str" THEN value ELSE [kind |-> "str", v |-> "repr"]
    ELSE IF value.kind = "int" THEN value ELSE Raised("ValidationError")

Bool(b) == [kind |-> "bool", value |-> b, warned |-> FALSE]

\* op(field_value, filter_value) for the operators of suffix_based_filters;
\* operator.contains(a, b) is `b in a`, which raises TypeError for an int a and
\* is the substring test for a str a (no str of the model is a part of another)
Apply(op, field_value, filter_value) ==
    IF op = "lt" THEN Bool(field_value < filter_value.v)
    ELSE IF op = "gt" THEN Bool(field_value > filter_value.v)
    ELSE IF op = "le" THEN Bool(field_value <= filter_value.v)
    ELSE IF op = "ge" THEN Bool(field_value >= filter_value.v)
    ELSE IF op = "eq" THEN Bool(field_value = filter_value.v)
    ELSE IF filter_value.kind = "int" THEN Raised("TypeError")
    ELSE Bool(filter_value.v = "" \/ filter_value.v = field_value)

\* instance.get_field_value(filter_expr), instance.parse_field_value(filter_expr,
\* filter_value) and op(...), in that order
\* op(field_value, filter_value), unless parse_field_value raised
ApplyParsed(instance, field, parsed, op) ==
    IF parsed.kind = "raise" THEN parsed
    ELSE Apply(op, get_field_value(instance, field.name), parsed)

\* parse_field_value and op, unless get_field_value raised
ParseAndApply(instance, field, filter_value, op) ==
    IF field.kind = "raise" THEN field
    ELSE ApplyParsed(instance, field, to_python(field.name, filter_value), op)

MatchWith(instance, filter_expr, filter_value, op) ==
    ParseAndApply(instance, get_field(filter_expr), filter_value, op)

\* suffix_based_filters, in the order it is iterated
suffix_based_filters ==
    <<[suffix |-> Str__lt, op |-> "lt"], [suffix |-> Str__gt, op |-> "gt"],
      [suffix |-> Str__lte, op |-> "le"], [suffix |-> Str__gte, op |-> "ge"],
      [suffix |-> Str__eq, op |-> "eq"], [suffix |-> Str__exact, op |-> "eq"],
      [suffix |-> Str__in, op |-> "contains"]>>

RECURSIVE MatchSuffix(_, _, _, _)
MatchSuffix(instance, suffixes, filter_expr, filter_value) ==
    IF suffixes = <<>> THEN MatchWith(instance, filter_expr, filter_value, "eq")
    ELSE IF endswith(filter_expr, Head(suffixes).suffix)
    THEN MatchWith(instance, replace(filter_expr, Head(suffixes).suffix, -1), filter_value,
                   Head(suffixes).op)
    ELSE MatchSuffix(instance, Tail(suffixes), filter_expr, filter_value)

\* _matches(instance, filter_expr, filter_value): True or False, or the
\* exception that leaves it; `except ValueError` warns and gives False
\* `except ValueError`: the warning and False in place of a ValueError
ExceptValueError(m) ==
    IF m.kind = "raise" /\ m.exc = "ValueError"
    THEN [kind |-> "bool", value |-> FALSE, warned |-> TRUE]
    ELSE m

_matches(instance, filter_expr, filter_value) ==
    ExceptValueError(MatchSuffix(instance, suffix_based_filters, filter_expr, filter_value))

\* all(self._matches(instance, name, value) for name, value in
\* filter_values.items()): the expressions are taken in the order of the
\* keyword arguments, up to the first that is False or raises
\* all(...) of one outcome and of the outcomes after it
AndThen(m, rest) ==
    IF m.kind = "raise" \/ ~m.value THEN m
    ELSE IF rest.kind = "raise" THEN rest
    ELSE [rest EXCEPT !.warned = m.warned \/ rest.warned]

RECURSIVE AllMatch(_, _)
AllMatch(instance, filter_values) ==
    IF filter_values = <<>> THEN Bool(TRUE)
    ELSE AndThen(_matches(instance, Head(filter_values).expr, Head(filter_values).value),
                 AllMatch(instance, Tail(filter_values)))

\* InMemoryRepository.filter(**filter_values): the instances for which all
\* expressions match, in the order of _instances, and whether a warning was
\* emitted; or the exception that left _matches
\* filter(filters, ...) of one instance, given its all(...) and the instances
\* after it
Kept(instance, m, rest) ==
    IF m.kind = "raise" THEN m
    ELSE IF rest.kind = "raise" THEN rest
    ELSE [kind |-> "value",
          value |-> IF m.value THEN <<instance>> \o rest.value ELSE rest.value,
          warned |-> m.warned \/ rest.warned]

RECURSIVE filter(_, _)
filter(instances_, filter_values) ==
    IF instances_ = <<>> THEN [kind |-> "value", value |-> <<>>, warned |-> FALSE]
    ELSE Kept(Head(instances_), AllMatch(Head(instances_), filter_values),
              filter(Tail(instances_), filter_values))

\* **criteria.expressions_values of the criteria types above: the keyword
\* arguments, `email__exact` the only one there can be
AsFilterValues(exprs) ==
    IF "email" \in DOMAIN exprs
    THEN <<[expr |-> Str_email \o Str__exact,
            value |-> [kind |-> "str", v |-> exprs["email"]]]>>
    ELSE <<>>

\* DjangoRepository._get_queryset(): all rows, no ordering asked for
_get_queryset == [rows |-> stored, ordered |-> FALSE]

\* FilterSet.filter_queryset: each filter is applied to its cleaned value and
\* leaves the queryset as it is when that value is empty (None, '', []).
filter_queryset(c, queryset) ==
    LET cleaned == cleaned_data(c)
        by_email == IF "email" \in DOMAIN cleaned /\ cleaned["email"] # <<"">>
                    THEN [queryset EXCEPT !.rows =
                             filter(queryset.rows,
                                    AsFilterValues([n \in {"email"} |->
                                                       cleaned["email"][1]])).value]
                    ELSE queryset
    IN IF "order" \in DOMAIN cleaned /\ cleaned["order"] # <<>> /\ cleaned["order"][1] # <<>>
       THEN [rows |-> order_by(by_email.rows, cleaned["order"][1]), ordered |-> TRUE]
       ELSE by_email

\* queryset.first(): the first row, by primary key when no ordering was asked for
RECURSIVE ByPk(_)
ByPk(S) ==
    IF S = {} THEN <<>>
    ELSE LET lo == CHOOSE i \in S : \A j \in S : i <= j
         IN <<lo>> \o ByPk(S \ {lo})

first(queryset) ==
    IF queryset.rows = <<>> THEN <<>>
    ELSE IF queryset.ordered THEN <<queryset.rows[1]>>
    ELSE <<ByPk(Range(queryset.rows))[1]>>

\* Pagination objects, each built with a request: a page-number pagination
\* reads the page from the request, a cursor pagination serves the first page.
\* `declared` is the attribute `ordering` of the class of the object (None in
\* CursorPagination itself, a tuple in a subclass that declares one) and
\* `ordering` what reading pagination.ordering gives: the class attribute until
\* find assigns the attribute on the object.
PageNumberPagination(page, page_size) ==
    [kind |-> "PageNumberPagination", declared |-> <<>>, ordering |-> <<>>,
     page |-> page, page_size |-> page_size]

CursorPagination(ordering, page_size) ==
    [kind |-> "CursorPagination", declared |-> ordering, ordering |-> ordering,
     page |-> 1, page_size |-> page_size]

Paginations ==
    {PageNumberPagination(n, PageSize) : n \in 1..MaxPage}
    \cup {CursorPagination(o, PageSize) : o \in {<<>>, <<(<<"email">>)>>}}

\* pagination.paginate_queryset(queryset) on the rows (a queryset's or the
\* in-memory repository's)
paginate_queryset(p, rows) ==
    IF p.kind = "CursorPagination"
    THEN IF p.ordering = <<>> THEN Raised("AssertionError")
         ELSE [kind |-> "value", value |-> Slice(order_by(rows, p.ordering[1]), 0, p.page_size)]
    ELSE LET hits == IF Len(rows) > 1 THEN Len(rows) ELSE 1
             num_pages == (hits + p.page_size - 1) \div p.page_size
         IN IF p.page > num_pages THEN Raised("NotFound")
            ELSE [kind |-> "value",
                  value |-> Slice(rows, (p.page - 1) * p.page_size, p.page * p.page_size)]

\* `criteria.values.order or pagination.ordering`
OrderOr(order, ordering) ==
    IF order # <<>> /\ order[1] # <<>> THEN order ELSE ordering

\* Each lookup gives what it returned or raised (result) and the criteria and
\* pagination objects as it leaves them.
Outcome(result, c, p) == [result |-> result, criteria |-> c, pagination |-> p]

\* DjangoRepository.get(criteria)
DjangoRepository_get(c, p) ==
    LET queryset == filter_queryset(c, _get_queryset)
        instance == first(queryset)
    IN IF DataIsEmpty(c) THEN Outcome(Failure("NotFoundError", None), c, p)
       ELSE IF ~c.validated
       THEN \* the form has no cleaned_data
            Outcome(Raised("AttributeError"), c, p)
       ELSE IF instance = <<>> THEN Outcome(Failure("NotFoundError", "details"), c, p)
       ELSE Outcome(Success(instance[1]), c, p)

\* InMemoryRepository.get(criteria)
InMemoryRepository_get(c, p) ==
    LET exprs == expressions_values(c)
        found == filter(stored, AsFilterValues(exprs.value))
    IN IF DataIsEmpty(c) THEN Outcome(Failure("NotFoundError", None), c, p)
       ELSE IF exprs.kind = "raise" THEN Outcome(exprs, AfterValues(c), p)
       ELSE IF found.kind = "raise" THEN Outcome(found, AfterValues(c), p)
       ELSE IF found.value = <<>>
       THEN Outcome(Failure("NotFoundError", None), AfterValues(c), p)
       ELSE Outcome(Success(found.value[1]), AfterValues(c), p)

\* The id handed to get_by_id: a UUID object or a str; uuid is <<i>> when it
\* denotes the primary key i and <<>> when the str is no UUID (as "missing").
IdArguments ==
    {[type |-> t, uuid |-> <<i>>] : t \in {"UUID", "str"}, i \in RecordIds}
    \cup {[type |-> "str", uuid |-> <<>>]}

\* DjangoRepository.get_by_id(id): queryset.get(id=id) converts the id with
\* UUIDField.to_python, which raises ValidationError for a str that is no UUID;
\* only DoesNotExist is caught.
DjangoRepository_get_by_id(id, c, p) ==
    IF id.uuid = <<>> THEN Outcome(Raised("ValidationError"), c, p)
    ELSE IF id.uuid[1] \in Range(stored) THEN Outcome(Success(id.uuid[1]), c, p)
    ELSE Outcome(Failure("NotFoundError", None), c, p)

\* InMemoryRepository.get_by_id(id): `instance.id == id`, instance.id a UUID
\* object, is true only of an equal UUID object.
InMemoryRepository_get_by_id(id, c, p) ==
    LET found == SelectSeq(stored, LAMBDA instance : id.type = "UUID" /\ id.uuid = <<instance>>)
    IN IF found = <<>> THEN Outcome(Failure("NotFoundError", None), c, p)
       ELSE Outcome(Success(found[1]), c, p)

\* DjangoRepository.find(criteria, pagination)
DjangoRepository_find(c, p) ==
    LET cursor == p.kind = "CursorPagination"
        order == values_order(c)
        c1 == IF cursor THEN AfterValues(c) ELSE c
        p1 == IF cursor /\ order.kind = "value"
              THEN [p EXCEPT !.ordering = OrderOr(order.value, p.ordering)] ELSE p
        queryset == IF ~DataIsEmpty(c) THEN filter_queryset(c1, _get_queryset)
                    ELSE _get_queryset
        paginated == paginate_queryset(p1, queryset.rows)
    IN IF cursor /\ order.kind = "raise" THEN Outcome(order, c1, p1)
       ELSE IF ~DataIsEmpty(c) /\ ~c1.validated
       THEN \* the form has no cleaned_data
            Outcome(Raised("AttributeError"), c1, p1)
       ELSE IF paginated.kind = "raise" THEN Outcome(paginated, c1, p1)
       ELSE Outcome(Success(paginated.value), c1, p1)

\* InMemoryRepository.find(criteria, pagination)
InMemoryRepository_find(c, p) ==
    LET cursor == p.kind = "CursorPagination"
        exprs == expressions_values(c)
        c1 == AfterValues(c)
        filtered == filter(stored, AsFilterValues(exprs.value))
        order == values_order(c).value
        p1 == IF cursor THEN [p EXCEPT !.ordering = OrderOr(order, p.ordering)] ELSE p
        ordered == IF cursor THEN filtered.value ELSE order_by(filtered.value, order[1])
        paginated == paginate_queryset(p1, ordered)
    IN IF exprs.kind = "raise" THEN Outcome(exprs, c1, p)
       ELSE IF filtered.kind = "raise" THEN Outcome(filtered, c1, p)
       ELSE IF ~cursor /\ order = <<>>
       THEN \* order_by(*None)
            Outcome(Raised("TypeError"), c1, p)
       ELSE IF paginated.kind = "raise" THEN Outcome(paginated, c1, p1)
       ELSE Outcome(Success(paginated.value), c1, p1)

\* ------------------------------------------------------------------------
\* Lookups on a repository with given contents
\* ------------------------------------------------------------------------
besideQuery == <<domain_events, email, event_count, connection, repository, instances,
                 store_log, dispatch_log, call_result, brokerVars, pullVars, lockVars,
                 resolveVars, compileVars>>

NoCall == [call |-> None]

\* The caller builds the Filters of a criteria type from request data, or from
\* no data at all.
BindFilters(type, data) ==
    /\ criteria' = NewFilters(type, data)
    /\ query_result' = NoCall
    /\ UNCHANGED <<stored, pagination, besideQuery>>

\* The caller checks criteria.is_valid().
CheckIsValid ==
    /\ ~criteria.validated /\ criteria.is_bound
    /\ criteria' = AfterValues(criteria)
    /\ query_result' = NoCall
    /\ UNCHANGED <<stored, pagination, besideQuery>>

\* The caller builds a pagination object.
NewPagination(p) ==
    /\ pagination' = p
    /\ query_result' = NoCall
    /\ UNCHANGED <<stored, criteria, besideQuery>>

Lookup(call, id, outcome) ==
    /\ query_result' = [call |-> call, repository |-> repository, id |-> id,
                        criteria |-> criteria, pagination |-> pagination,
                        result |-> outcome.result]
    /\ criteria' = outcome.criteria
    /\ pagination' = outcome.pagination
    /\ UNCHANGED <<stored, besideQuery>>

DjangoGet ==
    /\ repository = "DjangoRepository"
    /\ Lookup("get", <<>>, DjangoRepository_get(criteria, pagination))

InMemoryGet ==
    /\ repository = "InMemoryRepository"
    /\ Lookup("get", <<>>, InMemoryRepository_get(criteria, pagination))

DjangoGetById(id) ==
    /\ repository = "DjangoRepository"
    /\ Lookup("get_by_id", id, DjangoRepository_get_by_id(id, criteria, pagination))

InMemoryGetById(id) ==
    /\ repository = "InMemoryRepository"
    /\ Lookup("get_by_id", id, InMemoryRepository_get_by_id(id, criteria, pagination))

DjangoFind ==
    /\ repository = "DjangoRepository"
    /\ Lookup("find", <<>>, DjangoRepository_find(criteria, pagination))

InMemoryFind ==
    /\ repository = "InMemoryRepository"
    /\ Lookup("find", <<>>, InMemoryRepository_find(criteria, pagination))

InitQuery ==
    /\ BrokerIdle /\ PullIdle /\ LockIdle /\ ResolveIdle /\ CompileIdle
    /\ domain_events = [a \in Aggs |-> <<>>]
    /\ email = [a \in Aggs |-> IF a = "a1" THEN "a@x.com" ELSE "b@x.com"]
    /\ event_count = 0
    /\ connection = NewConnection
    /\ repository \in {"DjangoRepository", "InMemoryRepository"}
    /\ instances = <<>>
    /\ store_log = <<>>
    /\ dispatch_log = <<>>
    /\ call_result = None
    /\ stored \in StoreContents
    /\ criteria = NewFilters("UserAccountCriteria", <<>>)
    /\ pagination = PageNumberPagination(1, PageSize)
    /\ query_result = NoCall

NextQuery ==
    \/ \E type \in CriteriaTypes :
           \E data \in {<<>>} \cup {<<d>> : d \in RawData(type)} : BindFilters(type, data)
    \/ CheckIsValid
    \/ \E p \in Paginations : NewPagination(p)
    \/ DjangoGet
    \/ InMemoryGet
    \/ \E id \in IdArguments : DjangoGetById(id)
    \/ \E id \in IdArguments : InMemoryGetById(id)
    \/ DjangoFind
    \/ InMemoryFind

SpecQuery == InitQuery /\ [][NextQuery]_vars

\* The caller bound the criteria to data and found it valid.
Usable(c) == c.validated /\ is_valid(c)

\* The criteria sets a constraint field: its data gives a declared field a
\* value that is not blank.
HasConstraint(c) ==
    \E n \in (FilterNames(c.type) \ {"order"}) \cap DOMAIN c.data : c.data[n] # ""

\* the stored aggregates that satisfy the constraints of the criteria
Matching(c) ==
    {i \in Range(stored) :
        \A n \in (FilterNames(c.type) \ {"order"}) \cap DOMAIN c.data :
            c.data[n] # "" => get_field_value(i, n) = c.data[n]}

\* how many of n records fall on the page of the pagination
OnPage(p, n) ==
    LET rest == n - (p.page - 1) * p.page_size
    IN IF rest <= 0 THEN 0 ELSE IF rest < p.page_size THEN rest ELSE p.page_size

\* C4 as claimed: get with an empty criteria (only unknown keys, only blank
\* values, only `order`, or nothing at all) returns Failure(NotFoundError)
\* whatever the repository holds, in both repositories.
C4_GetWithEmptyCriteriaFails ==
    (/\ query_result.call = "get"
     /\ ~query_result.criteria.is_bound \/ Usable(query_result.criteria)
     /\ ~HasConstraint(query_result.criteria))
    => (/\ query_result.result.kind = "Failure"
        /\ query_result.result.error = "NotFoundError")

\* C5 as claimed: find with an empty criteria returns Success with the stored
\* records that fall on the page, and find with a criteria that no record
\* matches returns Success with an empty sequence; it never raises, in both
\* repositories and with both paginations.
C5_FindWithEmptyCriteriaReturnsAll ==
    (query_result.call = "find" /\ Usable(query_result.criteria))
    => LET c == query_result.criteria
           r == query_result.result
       IN /\ ~HasConstraint(c) =>
                 /\ r.kind = "Success"
                 /\ Range(r.value) \subseteq Range(stored)
                 /\ Cardinality(Range(r.value)) = Len(r.value)
                 /\ Len(r.value) = OnPage(query_result.pagination, Len(stored))
          /\ Matching(c) = {} => r = Success(<<>>)

\* C10 as claimed: get_by_id returns Success with the stored aggregate whose
\* identifier is the id when there is one, and else Failure(NotFoundError)
\* without details; it never raises.
C10_GetByIdFindsOrFails ==
    query_result.call = "get_by_id"
    => LET id == query_result.id
       IN IF id.uuid # <<>> /\ id.uuid[1] \in Range(stored)
          THEN query_result.result = Success(id.uuid[1])
          ELSE query_result.result = Failure("NotFoundError", None)

\* C16 as claimed: get and find called with a criteria that is bound to data
\* that fails validation return a typed failure; no exception of the binding
\* (Filters.values, Filters.expressions_values) reaches the caller.
C16_InvalidBindingIsTypedFailure ==
    (/\ query_result.call \in {"get", "find"}
     /\ query_result.criteria.is_bound
     /\ ~is_valid(query_result.criteria))
    => query_result.result.kind = "Failure"

\* C20 as claimed: a find with a cursor pagination leaves the call ordered by
\* the order of its own criteria when that sets one, and else by the ordering
\* the pagination declared, whatever earlier calls with the same pagination
\* object were given.
C20_EarlierOrderDoesNotLeak ==
    (/\ query_result.call = "find"
     /\ query_result.pagination.kind = "CursorPagination"
     /\ Usable(query_result.criteria)
     /\ values(query_result.criteria).kind = "criteria")
    => pagination.ordering = OrderOr(values_order(query_result.criteria).value,
                                     query_result.pagination.declared)

\* ------------------------------------------------------------------------
\* events.py: DomainEventBroker.resolve, event_listener and the Repository class
\* ------------------------------------------------------------------------
MaxResolves == 3

\* The python paths of the two broker classes.
BrokerPaths == {"DjangoSignalDomainEventBroker", "InMemoryDomainEventBroker"}

\* The arguments of a call of resolve: none, or a python path.
ResolveArguments == {<<>>} \cup {<<path>> : path \in BrokerPaths}

\* broker_cls(): the class is instantiated without arguments
NewBroker(path) ==
    IF path = "DjangoSignalDomainEventBroker" THEN NewDjangoSignalBroker
    ELSE NewInMemoryBroker(FALSE)

\* @cache resolve(python_path=settings.DOMAIN_EVENTS_BROKER): functools.cache
\* keys its entries by the arguments of the call, so a call is answered from the
\* cache when a call with the same arguments was made before, and else runs the
\* body, which instantiates the class at the path. Brokers are named by their
\* index in objects.
resolve(cache, objects, args, default) ==
    IF args \in DOMAIN cache
    THEN [ret |-> cache[args], cache |-> cache, objects |-> objects]
    ELSE [ret |-> Len(objects) + 1,
          cache |-> [k \in DOMAIN cache \cup {args} |->
                        IF k = args THEN Len(objects) + 1 ELSE cache[k]],
          objects |-> Append(objects, NewBroker(IF args = <<>> THEN default ELSE args[1]))]

besideResolve == <<txVars, brokerVars, pullVars, lockVars, queryVars, compileVars>>

\* Some code calls DomainEventBroker.resolve(...).
Resolve(args) ==
    /\ Len(resolve_log) < MaxResolves
    /\ LET r == resolve(resolve_cache, broker_objects, args, settings)
       IN /\ resolve_cache' = r.cache
          /\ broker_objects' = r.objects
          /\ resolve_log' = Append(resolve_log, [by |-> "caller", args |-> args, ret |-> r.ret])
    /\ UNCHANGED <<settings, repository_broker, besideResolve>>

\* @event_listener(event_class) applied to a function: resolve() and then
\* register_listener on the broker it returned
EventListener(event_class, listener) ==
    /\ Len(resolve_log) < MaxResolves
    /\ LET r == resolve(resolve_cache, broker_objects, <<>>, settings)
       IN /\ resolve_cache' = r.cache
          /\ broker_objects' = [r.objects EXCEPT ![r.ret] =
                                   register_listener(@, event_class, listener)]
          /\ resolve_log' = Append(resolve_log,
                                   [by |-> "event_listener", args |-> <<>>, ret |-> r.ret])
    /\ UNCHANGED <<settings, repository_broker, besideResolve>>

\* The body of class Repository runs: domain_events_broker = DomainEventBroker.resolve()
ImportRepository ==
    /\ repository_broker = <<>>
    /\ Len(resolve_log) < MaxResolves
    /\ LET r == resolve(resolve_cache, broker_objects, <<>>, settings)
       IN /\ resolve_cache' = r.cache
          /\ broker_objects' = r.objects
          /\ repository_broker' = <<r.ret>>
          /\ resolve_log' = Append(resolve_log,
                                   [by |-> "Repository", args |-> <<>>, ret |-> r.ret])
    /\ UNCHANGED <<settings, besideResolve>>

InitResolve ==
    /\ TxIdle /\ BrokerIdle /\ PullIdle /\ LockIdle /\ QueryIdle /\ CompileIdle
    /\ settings \in BrokerPaths
    /\ broker_objects = <<>>
    /\ resolve_cache = <<>>
    /\ resolve_log = <<>>
    /\ repository_broker = <<>>

NextResolve ==
    \/ \E args \in ResolveArguments : Resolve(args)
    \/ \E t \in EventTypes, l \in Listeners : EventListener(t, l)
    \/ ImportRepository

SpecResolve == InitResolve /\ [][NextResolve]_vars

\* C12 as claimed: every call of resolve, whatever its arguments, returns the
\* broker the first call returned, of the class the first call chose; so the
\* broker of event_listener and the broker of Repository are one object.
C12_ResolveIsSingleton ==
    \A i \in 1..Len(resolve_log) :
        /\ resolve_log[i].ret = resolve_log[1].ret
        /\ broker_objects[resolve_log[i].ret].kind = broker_objects[resolve_log[1].ret].kind

\* ------------------------------------------------------------------------
\* filters.py: Filters.from_criteria on a declared Criteria type
\* ------------------------------------------------------------------------
MaxSuffixes == 2
MaxNesting == 2

\* The `suffixes` dict of numeric_filter, in the order it is iterated
NumericSuffixes ==
    <<[suffix |-> Str_min, lookup_expr |-> "gte"],
      [suffix |-> Str_max, lookup_expr |-> "lte"],
      [suffix |-> Str_emin, lookup_expr |-> "gt"],
      [suffix |-> Str_emax, lookup_expr |-> "lt"]>>

\* The `suffixes` dict of datetime_filter and of date_filter
DateSuffixes ==
    <<[suffix |-> Str_after, lookup_expr |-> "gt"],
      [suffix |-> Str_before, lookup_expr |-> "lt"],
      [suffix |-> Str_iafter, lookup_expr |-> "gte"],
      [suffix |-> Str_ibefore, lookup_expr |-> "lte"]>>

\* A django-filters Filter: its class, field_name and lookup_expr ('exact' when
\* the constructor is given none).
Filter(class, field_name, lookup_expr) ==
    [class |-> class, field_name |-> field_name, lookup_expr |-> lookup_expr]

\* The loop shared by numeric_filter, datetime_filter and date_filter: the
\* first suffix of the dict the name ends with is taken, and the filter's field
\* is field_name.replace(suffix, '').
RECURSIVE SuffixFilter(_, _, _)
SuffixFilter(class, suffixes, field_name) ==
    IF suffixes = <<>> THEN Filter(class, field_name, "exact")
    ELSE IF endswith(field_name, Head(suffixes).suffix)
    THEN Filter(class, replace(field_name, Head(suffixes).suffix, -1),
                Head(suffixes).lookup_expr)
    ELSE SuffixFilter(class, Tail(suffixes), field_name)

numeric_filter(field_name) == SuffixFilter("NumberFilter", NumericSuffixes, field_name)

datetime_filter(field_name) == SuffixFilter("IsoDateTimeFilter", DateSuffixes, field_name)

date_filter(field_name) == SuffixFilter("DateFilter", DateSuffixes, field_name)

\* The declared type of a field, its Optional[...] taken off: a scalar type, or
\* a dataclass. "Ordering" is the type of the `order` field of Criteria.
Scalar(name) == [kind |-> "scalar", name |-> name]
Dataclass(cls) == [kind |-> "dataclass", cls |-> cls]

\* The keys of filter_mappings that the declared types use
FilterMappings == {"str", "int", "date", "datetime"}

\* filter_mappings[field_type](field_name=field)
FilterFor(field_type, field) ==
    IF field_type = "str" THEN Filter("CharFilter", field, "exact")
    ELSE IF field_type = "int" THEN numeric_filter(field)
    ELSE IF field_type = "date" THEN date_filter(field)
    ELSE datetime_filter(field)

\* A dataclass is [criteria, fields]: whether it derives from Criteria, and the
\* fields it declares itself, in order. get_all_annotations(cls) walks the mro
\* from the base, so the `order` of Criteria comes first.
AnnotationsOf(cls) ==
    IF cls.criteria THEN <<[name |-> Str_order, type |-> Scalar("Ordering")]>> \o cls.fields
    ELSE cls.fields

\* expand_fields(fields_types, prefix): the (name, type) pairs it yields, in order
RECURSIVE expand_fields(_, _)
expand_fields(fields_types, prefix) ==
    IF fields_types = <<>> THEN <<>>
    ELSE LET f == Head(fields_types)
             field == IF startswith(f.name, prefix) THEN replace(f.name, prefix, 1)
                      ELSE f.name
             yielded ==
                 IF startswith(f.name, Underscore) THEN <<>>
                 ELSE IF f.type.kind = "dataclass"
                 THEN expand_fields(AnnotationsOf(f.type.cls), prefix \o field \o Underscore)
                 ELSE <<[name |-> prefix \o field, type |-> f.type.name]>>
         IN yielded \o expand_fields(Tail(fields_types), prefix)

\* from_criteria(criteria): raises ValueError at a field whose type is no key of
\* filter_mappings; else the generated class: its filters by name (a later
\* field of the same name replaces the earlier one in the dict) and, when the
\* type has the `order` field, the fields of the OrderingFilter.
from_criteria(cls) ==
    LET all_fields == AnnotationsOf(cls)
        filtering_fields == SelectSeq(all_fields, LAMBDA f : f.type # Scalar("Ordering"))
        expanded == expand_fields(filtering_fields, <<>>)
        names == {expanded[i].name : i \in 1..Len(expanded)}
        last(n) == CHOOSE i \in 1..Len(expanded) :
                       /\ expanded[i].name = n
                       /\ \A j \in (i + 1)..Len(expanded) : expanded[j].name # n
        filterset == [n \in names |-> FilterFor(expanded[last(n)].type, n)]
        has_ordering == \E i \in 1..Len(all_fields) : all_fields[i].type = Scalar("Ordering")
    IN IF \E i \in 1..Len(expanded) : expanded[i].type \notin FilterMappings
       THEN Raised("ValueError")
       ELSE [kind |-> "class", filters |-> filterset,
             ordering_fields |-> IF has_ordering
                                 THEN <<{filterset[n].field_name : n \in names}>>
                                 ELSE <<>>]

\* field_type(filters_dict[key]) on a cleaned value: str and int take the value
\* as it is; date(...) and datetime(...) take integers and raise TypeError when
\* handed the date or datetime object that the form field cleaned.
Convert(field_type, value) ==
    IF field_type \in {"date", "datetime"} THEN Raised("TypeError")
    ELSE [kind |-> "value", value |-> value]

\* _create_criteria(dataclass_type, filters_dict, prefix): a nested dataclass
\* is always a keyword argument (its value may be None); a leaf is one when its
\* key is in filters_dict; with no keyword argument the result is None, else
\* the dataclass, the fields without argument at their default None.
RECURSIVE _create_criteria_at(_, _, _)
_create_criteria_at(dataclass_type, filters_dict, prefix) ==
    LET annotations == AnnotationsOf(dataclass_type)
        key(f) == prefix \o f.name
        arg(f) == IF f.type.kind = "dataclass"
                  THEN _create_criteria_at(f.type.cls, filters_dict, key(f) \o Underscore)
                  ELSE IF key(f) \in DOMAIN filters_dict
                  THEN Convert(f.type.name, filters_dict[key(f)])
                  ELSE [kind |-> "unset"]
        kwargs == {i \in 1..Len(annotations) : arg(annotations[i]).kind # "unset"}
        raised == {i \in kwargs : arg(annotations[i]).kind = "raise"}
    IN IF raised # {}
       THEN arg(annotations[CHOOSE i \in raised : \A j \in raised : i <= j])
       ELSE IF kwargs = {} THEN [kind |-> "None"]
       ELSE [kind |-> "criteria",
             fields |-> [n \in {annotations[i].name : i \in 1..Len(annotations)} |->
                            LET i == CHOOSE j \in 1..Len(annotations) : annotations[j].name = n
                            IN IF i \in kwargs THEN arg(annotations[i])
                               ELSE [kind |-> "None"]]]

\* self.to_dict() of a valid bound filter set: the cleaned values that are not
\* None. A supplied key cleans to its value (here the key itself, so that a
\* value tells where it was read from); an absent key cleans to '' under a
\* CharFilter and to None under the other filters.
CleanedDict(filters_, supplied) ==
    [n \in {m \in DOMAIN filters_ : m \in supplied \/ filters_[m].class = "CharFilter"} |->
        IF n \in supplied THEN n ELSE <<>>]

\* Filters.expressions_values on the filters of the class and the outcome of
\* `values`: vals is the dict of the top-level fields of the criteria, and a
\* filter gives an entry, under its field_name and lookup_expr, when its name
\* is a key of vals whose value is neither None nor an Ordering. `values` may
\* have raised, and None has no to_dict.
ExpressionKey(f) == [field_name |-> f.field_name, lookup_expr |-> f.lookup_expr]

expressions_values_at(filters_, v) ==
    IF v.kind = "raise" THEN v
    ELSE IF v.kind = "None" THEN Raised("AttributeError")
    ELSE LET vals == v.fields
             names == {n \in DOMAIN filters_ : n \in DOMAIN vals /\ vals[n].kind = "value"}
         IN [kind |-> "value",
             value |-> [e \in {ExpressionKey(filters_[n]) : n \in names} |->
                           vals[CHOOSE n \in names : ExpressionKey(filters_[n]) = e].value]]

\* The declared types. One field under a key built from a base name and up to
\* MaxSuffixes suffixes, of each scalar type:
Suffixes ==
    {Str_min, Str_max, Str_emin, Str_emax, Str_after, Str_before, Str_iafter, Str_ibefore,
     Str__b}

RECURSIVE Keys(_)
Keys(n) ==
    IF n = 0 THEN {Str_a}
    ELSE Keys(n - 1) \cup {k \o x : k \in Keys(n - 1), x \in Suffixes}

FlatTypes ==
    {[criteria |-> TRUE, fields |-> <<[name |-> k, type |-> Scalar(t)]>>] :
        k \in Keys(MaxSuffixes), t \in FilterMappings}

\* and dataclasses nested up to MaxNesting deep, deriving from Criteria or not,
\* the innermost with one or two str or int fields:
LeafFields ==
    {[name |-> n, type |-> Scalar(t)] : n \in {Str_a, Str_b, Str_a_b}, t \in {"str", "int"}}

RECURSIVE Dataclasses(_)
Dataclasses(depth) ==
    IF depth = 0
    THEN {[criteria |-> c, fields |-> fs] :
             c \in BOOLEAN,
             fs \in {<<f>> : f \in LeafFields}
                    \cup {<<p[1], p[2]>> : p \in {q \in LeafFields \X LeafFields :
                                                    q[1].name # q[2].name}}}
    ELSE {[criteria |-> c, fields |-> <<[name |-> n, type |-> Dataclass(inner)]>>] :
             c \in BOOLEAN, n \in {Str_a, Str_b}, inner \in Dataclasses(depth - 1)}

NestedTypes == UNION {{t \in Dataclasses(d) : t.criteria} : d \in 1..MaxNesting}

besideCompile == <<txVars, brokerVars, pullVars, lockVars, queryVars, resolveVars>>

NotYet == [kind |-> "none"]

\* Filters.from_criteria(criteria_type) at import time
FromCriteria ==
    /\ filters_class = NotYet
    /\ filters_class' = from_criteria(criteria_type)
    /\ UNCHANGED <<criteria_type, bound_values, besideCompile>>

\* A request supplies values for some of the filters, the filter set is valid,
\* and `values` and `expressions_values` are read.
BindValues ==
    /\ filters_class.kind = "class"
    /\ bound_values = NotYet
    /\ \E supplied \in SUBSET DOMAIN filters_class.filters :
           LET filters_dict == CleanedDict(filters_class.filters, supplied)
               built == _create_criteria_at(criteria_type, filters_dict, <<>>)
           IN bound_values' = [kind |-> "bound", supplied |-> supplied, data |-> filters_dict,
                               values |-> built,
                               expressions |->
                                   expressions_values_at(filters_class.filters, built)]
    /\ UNCHANGED <<criteria_type, filters_class, besideCompile>>

InitCompile ==
    /\ TxIdle /\ BrokerIdle /\ PullIdle /\ LockIdle /\ QueryIdle /\ ResolveIdle
    /\ criteria_type \in FlatTypes \cup NestedTypes
    /\ filters_class = NotYet
    /\ bound_values = NotYet

NextCompile ==
    \/ FromCriteria
    \/ BindValues

SpecCompile == InitCompile /\ [][NextCompile]_vars

\* The suffixes as the specification lists them, with their operators.
ClaimedNumeric ==
    {<<Str_min, "gte">>, <<Str_max, "lte">>, <<Str_emin, "gt">>, <<Str_emax, "lt">>}

ClaimedDate ==
    {<<Str_after, "gt">>, <<Str_before, "lt">>, <<Str_iafter, "gte">>, <<Str_ibefore, "lte">>}

ClaimedSuffixes(field_type) ==
    IF field_type = "int" THEN ClaimedNumeric
    ELSE IF field_type \in {"date", "datetime"} THEN ClaimedDate
    ELSE {}

\* C13 as claimed: the filter compiled for a numeric or date/datetime key that
\* ends in a recognized suffix has the operator of the suffix and the key
\* without that one trailing suffix as its field; for a key without recognized
\* suffix it has the key itself as its field, with equality.
C13_SuffixGivesOperatorAndBaseField ==
    (filters_class.kind = "class" /\ criteria_type \in FlatTypes)
    => LET key == criteria_type.fields[1].name
           claimed == ClaimedSuffixes(criteria_type.fields[1].type.name)
           f == filters_class.filters[key]
       IN /\ \A c \in claimed :
                 endswith(key, c[1])
                 => /\ f.lookup_expr = c[2]
                    /\ f.field_name = SubSeq(key, 1, Len(key) - Len(c[1]))
          /\ (\A c \in claimed : ~endswith(key, c[1]))
             => f.field_name = key /\ f.lookup_expr = "exact"

\* The type has a field that is itself a Criteria.
HasNestedCriteria(cls) ==
    \E i \in 1..Len(cls.fields) :
        cls.fields[i].type.kind = "dataclass" /\ cls.fields[i].type.cls.criteria

\* The leaves of a type, each as the path of field names that leads to it
\* (the `order` of a Criteria is no constraint leaf).
RECURSIVE LeafPaths(_)
LeafPaths(cls) ==
    UNION {IF cls.fields[i].type.kind = "dataclass"
           THEN {<<cls.fields[i].name>> \o p : p \in LeafPaths(cls.fields[i].type.cls)}
           ELSE {<<cls.fields[i].name>>} : i \in 1..Len(cls.fields)}

\* <field>_<nestedfield>, applied at every depth
RECURSIVE Flattened(_)
Flattened(path) ==
    IF Len(path) = 1 THEN path[1]
    ELSE path[1] \o Underscore \o Flattened(Tail(path))

\* The value found in a built criteria by walking a path of field names
RECURSIVE ValueAt(_, _)
ValueAt(v, path) ==
    IF v.kind # "criteria" THEN [kind |-> "None"]
    ELSE IF Len(path) = 1 THEN v.fields[path[1]]
    ELSE ValueAt(v.fields[path[1]], Tail(path))

\* C14 as claimed: compiling a Criteria type with a nested Criteria field
\* succeeds and gives exactly one filter per leaf, under the flattened name of
\* the leaf; and the criteria built from a request holds, at each leaf that was
\* supplied, the value read from the flattened name of that leaf.
C14_NestedCriteriaCompiles ==
    (filters_class # NotYet /\ HasNestedCriteria(criteria_type))
    => LET leaves == LeafPaths(criteria_type)
       IN /\ filters_class.kind = "class"
          /\ DOMAIN filters_class.filters = {Flattened(p) : p \in leaves}
          /\ Cardinality(DOMAIN filters_class.filters) = Cardinality(leaves)
          /\ bound_values # NotYet =>
                 \A p \in leaves :
                     Flattened(p) \in bound_values.supplied
                     => ValueAt(bound_values.values, p)
                            = [kind |-> "value", value |-> bound_values.data[Flattened(p)]]

\* ------------------------------------------------------------------------
\* repository.py: InMemoryRepository.order_by on aggregates with equal keys
\* ------------------------------------------------------------------------
MaxRanked == 3
MaxKey == 1

\* What the repository holds: aggregates with two integer fields, `rank` and
\* `score`; the id of each is its place in _instances.
RankedContents ==
    UNION {{[i \in 1..n |-> [id |-> i, rank |-> q[i][1], score |-> q[i][2]]] :
               q \in [1..n -> (0..MaxKey) \X (0..MaxKey)]} : n \in 0..MaxRanked}

\* The arguments of order_by: no field, one, or two
OrderingTerms == {"rank", "-rank", "+rank", "score", "-score"}

OrderingArguments ==
    {<<>>} \cup {<<k>> : k \in OrderingTerms}
    \cup {<<k[1], k[2]>> : k \in OrderingTerms \X OrderingTerms}

\* repository.order_by(*ordering_fields): a new repository is returned, the
\* one called is left as it was, so one call for each repository is followed
OrderBy(ordering_fields) ==
    /\ query_result.call = None
    /\ query_result' = [call |-> "order_by", ordering_fields |-> ordering_fields,
                        result |-> order_by(stored, ordering_fields)]
    /\ UNCHANGED <<stored, criteria, pagination, besideQuery>>

InitOrder ==
    /\ TxIdle /\ BrokerIdle /\ PullIdle /\ LockIdle /\ ResolveIdle /\ CompileIdle
    /\ stored \in RankedContents
    /\ criteria = <<>>
    /\ pagination = <<>>
    /\ query_result = NoCall

NextOrder == \E ordering_fields \in OrderingArguments : OrderBy(ordering_fields)

SpecOrder == InitOrder /\ [][NextOrder]_vars

\* x and y have the same value under the key
KeyEqual(x, y, k) == SortKey(x, LStrip(k)) = SortKey(y, LStrip(k))

\* x comes before y under the key: ascending, descending under a '-' key
KeyBefore(x, y, k) ==
    IF StartsWithMinus(k) THEN SortKey(x, LStrip(k)) > SortKey(y, LStrip(k))
    ELSE SortKey(x, LStrip(k)) < SortKey(y, LStrip(k))

\* x comes before y in the lexicographic order of the keys, the first key the
\* most significant
RECURSIVE LexBefore(_, _, _)
LexBefore(x, y, keys) ==
    /\ keys # <<>>
    /\ \/ KeyBefore(x, y, Head(keys))
       \/ KeyEqual(x, y, Head(keys)) /\ LexBefore(x, y, Tail(keys))

EqualOnAll(x, y, keys) == \A n \in 1..Len(keys) : KeyEqual(x, y, keys[n])

\* C15: order_by(k1, ..., kn) returns the same aggregates sorted
\* lexicographically by the keys, k1 the most significant, each ascending
\* unless prefixed with '-'; two aggregates equal on every key keep the
\* relative order they had before the call.
C15_OrderByIsLexicographicAndStable ==
    query_result.call = "order_by"
    => LET r == query_result.result
           keys == query_result.ordering_fields
       IN /\ Len(r) = Len(stored)
          /\ Range(r) = Range(stored)
          /\ \A i, j \in 1..Len(r) :
                 i < j => \/ LexBefore(r[i], r[j], keys)
                          \/ EqualOnAll(r[i], r[j], keys) /\ r[i].id < r[j].id

\* order_by was called with two keys on different fields, the first one
\* descending, on aggregates of which two are equal on both keys and two are
\* equal on the first key only, and it changed their order.
C15_Witness ==
    /\ query_result.call = "order_by"
    /\ Len(query_result.ordering_fields) = 2
    /\ StartsWithMinus(query_result.ordering_fields[1])
    /\ LStrip(query_result.ordering_fields[1]) # LStrip(query_result.ordering_fields[2])
    /\ query_result.result # stored
    /\ \E i, j \in 1..Len(stored) :
           i < j /\ EqualOnAll(stored[i], stored[j], query_result.ordering_fields)
    /\ \E i, j \in 1..Len(stored) :
           /\ KeyEqual(stored[i], stored[j], query_result.ordering_fields[1])
           /\ ~KeyEqual(stored[i], stored[j], query_result.ordering_fields[2])

\* C17 as claimed: expressions_values of a bound, valid filter set has exactly
\* one entry for each leaf that was supplied with a value, under the field and
\* operator of its filter and with that value, and no other entry.
C17_OneExpressionPerSuppliedLeaf ==
    bound_values # NotYet
    => LET e == bound_values.expressions
       IN /\ e.kind = "value"
          /\ DOMAIN e.value = {ExpressionKey(filters_class.filters[n]) :
                                  n \in bound_values.supplied}
          /\ \A n \in bound_values.supplied :
                 e.value[ExpressionKey(filters_class.filters[n])] = bound_values.data[n]

\* ------------------------------------------------------------------------
\* repository.py: InMemoryRepository.filter, get and find on filter expressions
\* ------------------------------------------------------------------------
MaxMatched == 2

\* What the repository holds: up to MaxMatched of the aggregates with `rank`
\* and `score`
MatchedContents == {q \in RankedContents : Len(q) <= MaxMatched}

IntValue(v) == [kind |-> "int", v |-> v]

\* The filter values: the ints a field can hold, the lists of them, and a str
\* that is no int.
MatchValues ==
    {IntValue(v) : v \in 0..MaxKey}
    \cup {[kind |-> "list", v |-> S] : S \in (SUBSET (0..MaxKey)) \ {{}}}
    \cup {[kind |-> "str", v |-> "abc"]}

\* The expressions: a name, which is a field of the model or not (`nickname`),
\* and a lookup suffix, which _matches knows or not (`__icontains`), or none.
MatchNames == {Str_rank, Str_score, Str_members, Str_nickname}

MatchSuffixes ==
    {<<>>, Str__lt, Str__gt, Str__lte, Str__gte, Str__eq, Str__exact, Str__in,
     Str__icontains}

MatchExpressions ==
    {[expr |-> n \o x, value |-> v] : n \in MatchNames, x \in MatchSuffixes, v \in MatchValues}

\* The expressions that are also taken two at a time
PairedExpressions ==
    {e \in MatchExpressions :
        /\ e.value.kind = "int"
        /\ \/ e.expr \in {n \o x : n \in {Str_rank, Str_score}, x \in {<<>>, Str__lt, Str__gte}}
           \/ e.expr = Str_nickname \o Str__exact /\ e.value = IntValue(0)}

\* The keyword arguments of filter: one expression, or two on different keys
MatchArguments ==
    {<<e>> : e \in MatchExpressions}
    \cup {<<p[1], p[2]>> : p \in {q \in PairedExpressions \X PairedExpressions :
                                    q[1].expr # q[2].expr}}

\* repository.filter(**filter_values); one call for each repository is followed
MemoryFilter ==
    /\ query_result.call = None
    /\ \E filter_values \in MatchArguments :
           query_result' = [call |-> "filter", filter_values |-> filter_values,
                            result |-> filter(stored, filter_values)]
    /\ UNCHANGED <<stored, criteria, pagination, besideQuery>>

\* repository.get(criteria), the criteria valid, its data not empty and its
\* expressions_values the filter_values
MemoryGet ==
    /\ query_result.call = None
    /\ \E filter_values \in MatchArguments :
           LET found == filter(stored, filter_values)
           IN query_result' =
                  [call |-> "get", filter_values |-> filter_values,
                   result |-> IF found.kind = "raise" THEN found
                              ELSE IF found.value = <<>> THEN Failure("NotFoundError", None)
                              ELSE Success(found.value[1])]
    /\ UNCHANGED <<stored, criteria, pagination, besideQuery>>

\* repository.find(criteria, pagination), the criteria as for get, with an
\* empty order, and the pagination the first page of a page-number pagination
MemoryFind ==
    /\ query_result.call = None
    /\ \E filter_values \in MatchArguments :
           LET filtered == filter(stored, filter_values)
               paginated == paginate_queryset(PageNumberPagination(1, PageSize),
                                              order_by(filtered.value, <<>>))
           IN query_result' =
                  [call |-> "find", filter_values |-> filter_values,
                   result |-> IF filtered.kind = "raise" THEN filtered
                              ELSE IF paginated.kind = "raise" THEN paginated
                              ELSE Success(paginated.value)]
    /\ UNCHANGED <<stored, criteria, pagination, besideQuery>>

InitMatch ==
    /\ TxIdle /\ BrokerIdle /\ PullIdle /\ LockIdle /\ ResolveIdle /\ CompileIdle
    /\ stored \in MatchedContents
    /\ criteria = <<>>
    /\ pagination = <<>>
    /\ query_result = NoCall

NextMatch ==
    \/ MemoryFilter
    \/ MemoryGet
    \/ MemoryFind

SpecMatch == InitMatch /\ [][NextMatch]_vars

\* The operators as the specification gives them: the expression <field>__<op>
\* on an integer field holds of an aggregate when its field value stands in the
\* relation to the filter value, and <field>__in when it is in the list.
ClaimedOperators ==
    {<<Str__lt, "lt">>, <<Str__gt, "gt">>, <<Str__lte, "le">>, <<Str__gte, "ge">>,
     <<Str__exact, "exact">>, <<Str__in, "in">>}

IntegerFields == {Str_rank, Str_score}

\* The expression is a field of the model with one of the operators, and its
\* value is of the kind the operator takes.
Evaluable(e) ==
    \E n \in IntegerFields, c \in ClaimedOperators :
        /\ e.expr = n \o c[1]
        /\ e.value.kind = IF c[2] = "in" THEN "list" ELSE "int"

Holds(instance, e) ==
    \E n \in IntegerFields, c \in ClaimedOperators :
        /\ e.expr = n \o c[1]
        /\ LET x == instance[FieldName(n)]
               y == e.value.v
           IN IF c[2] = "lt" THEN x < y
              ELSE IF c[2] = "gt" THEN x > y
              ELSE IF c[2] = "le" THEN x <= y
              ELSE IF c[2] = "ge" THEN x >= y
              ELSE IF c[2] = "exact" THEN x = y
              ELSE x \in y

\* C18 as claimed: filter(**exprs), every expression one of lt, gt, lte, gte,
\* exact with a value or `in` with a list, returns exactly the aggregates of
\* which every expression holds, in their original order.
C18_FilterAppliesTheOperators ==
    (/\ query_result.call = "filter"
     /\ \A n \in 1..Len(query_result.filter_values) : Evaluable(query_result.filter_values[n]))
    => /\ query_result.result.kind = "value"
       /\ query_result.result.value =
              SelectSeq(stored, LAMBDA instance :
                  \A n \in 1..Len(query_result.filter_values) :
                      Holds(instance, query_result.filter_values[n]))

\* C19 as claimed: when an expression cannot be evaluated (no such field, a
\* lookup suffix _matches does not support, a value the field cannot parse) no
\* aggregate matches, a warning is emitted when the expression is reached, and
\* nothing is raised: filter returns no aggregate, get returns
\* Failure(NotFoundError) and find returns Success with the empty result.
C19_UnevaluableMeansNoMatch ==
    (/\ query_result.call \in {"filter", "get", "find"}
     /\ \E n \in 1..Len(query_result.filter_values) :
            ~Evaluable(query_result.filter_values[n]))
    => LET r == query_result.result
       IN /\ r.kind # "raise"
          /\ query_result.call = "filter" =>
                 /\ r.value = <<>>
                 /\ (stored # <<>> /\ ~Evaluable(query_result.filter_values[1])) => r.warned
          /\ query_result.call = "get" => r = Failure("NotFoundError", None)
          /\ query_result.call = "find" => r = Success(<<>>)


\* ------------------------------------------------------------------------
\* repository.py: what store leaves in the collection
\* ------------------------------------------------------------------------
\* The identifiers of the entries of a collection, in its order
Ids(entries) == [k \in 1..Len(entries) |-> entries[k].id]

NoneTwice(ids) == \A i, j \in 1..Len(ids) : i # j => ids[i] # ids[j]

\* InMemoryRepository.find with criteria that constrain nothing, on one page
\* that takes the whole collection: filter(**{}) and paginate_queryset
FindAll(entries) ==
    paginate_queryset(PageNumberPagination(1, Len(entries) + 1),
                      filter(entries, <<>>).value).value

\* InMemoryRepository.get_by_id(id): every entry `instance.id == id` holds for,
\* of which next(...) hands out the first
EntriesWithId(entries, id) == SelectSeq(entries, LAMBDA instance : instance.id = id)

\* C21 as claimed: after any sequence of store calls the collection of the
\* in-memory repository holds at most one entry per aggregate identifier, as
\* the rows of the durable repository do, so that find returns no aggregate
\* twice and at most one entry answers get_by_id.
C21_StoreCreatesOrUpdates ==
    /\ NoneTwice(Ids(instances))
    /\ NoneTwice(Ids(FindAll(instances)))
    /\ \A a \in Aggs : Len(EntriesWithId(instances, a)) <= 1

====
